---- MODULE Spec2Model ----
(***************************************************************************)
(* A model of the proxycraft reverse proxy: routing selector, middleware   *)
(* stack, security filters, Content-Length rewriter and the file cache.    *)
(* Strings are sequences of one-character strings so that globs, prefixes  *)
(* and trailing slashes are computed, not assumed.                         *)
(***************************************************************************)
EXTENDS Integers, Sequences, FiniteSets, TLC

(***************************************************************************)
(* Bounds of the model.                                                    *)
(***************************************************************************)
MaxPathLen == 3
MaxUaLen == 3

(***************************************************************************)
(* Strings and the Ant-style glob matcher (antpathmatcher.AntPathMatcher,  *)
(* an external dependency used through .match(pattern, path)).             *)
(***************************************************************************)
PathChars == {"/", "a", "b"}

\* Every string over `chars` of at most n characters.
RECURSIVE StringsOver(_, _)
StringsOver(chars, n) ==
    IF n = 0 THEN {<<>>}
    ELSE LET shorter == StringsOver(chars, n - 1)
         IN  shorter \cup {Append(s, c) : s \in {t \in shorter : Len(t) = n - 1}, c \in chars}

StringsUpTo(n) == StringsOver(PathChars, n)

Last(s) == s[Len(s)]

endswith(s, c) == Len(s) > 0 /\ Last(s) = c

\* Split a string at every "/" (Python str.split("/")): "/a/" gives "", "a", "".
RECURSIVE SplitSlash(_, _, _)
SplitSlash(s, i, cur) ==
    IF i > Len(s) THEN <<cur>>
    ELSE IF s[i] = "/" THEN <<cur>> \o SplitSlash(s, i + 1, <<>>)
    ELSE SplitSlash(s, i + 1, Append(cur, s[i]))

Segments(s) == SplitSlash(s, 1, <<>>)

\* One path segment against one pattern segment: "?" is one character,
\* "*" any run of characters, anything else a literal.
RECURSIVE GlobSegment(_, _)
GlobSegment(p, s) ==
    IF Len(p) = 0 THEN Len(s) = 0
    ELSE IF p[1] = "*"
         THEN GlobSegment(Tail(p), s) \/ (Len(s) > 0 /\ GlobSegment(p, Tail(s)))
    ELSE IF Len(s) = 0 THEN FALSE
    ELSE IF p[1] = "?" THEN GlobSegment(Tail(p), Tail(s))
    ELSE p[1] = s[1] /\ GlobSegment(Tail(p), Tail(s))

\* Segment lists: a "**" pattern segment spans zero or more path segments.
RECURSIVE GlobSegments(_, _)
GlobSegments(ps, ss) ==
    IF Len(ps) = 0 THEN Len(ss) = 0
    ELSE IF ps[1] = <<"*", "*">>
         THEN GlobSegments(Tail(ps), ss) \/ (Len(ss) > 0 /\ GlobSegments(ps, Tail(ss)))
    ELSE Len(ss) > 0 /\ GlobSegment(ps[1], ss[1]) /\ GlobSegments(Tail(ps), Tail(ss))

ant_match(pattern, path) == GlobSegments(Segments(pattern), Segments(path))

(***************************************************************************)
(* Routing selector.                                                       *)
(***************************************************************************)
\* The endpoint tables used by the routing checks: each entry is an
\* Endpoint.match pattern, in config.endpoints order.
RouteTables ==
    << << <<"/", "a", "/", "*">>, <<"*", "*", "/", "*">> >>,
       << <<"*", "*", "/", "*">>, <<"/", "a", "/", "*">> >>,
       << <<"/", "a", "/", "*", "*">>, <<"/", "a", "/", "b", "/", "*">>, <<"/", "?", "/">> >>,
       << <<"/", "b", "/", "*">> >>,
       << <<>>, <<"*", "*", "/", "*">> >> >>

\* What a call of find_endpoint ends with: an endpoint (its 1-based index in
\* config.endpoints), the "no endpoint found" exception, or AttributeError.
Found(i) == [kind |-> "endpoint", index |-> i]
NoEndpoint == [kind |-> "no_endpoint", index |-> 0]
AttributeError == [kind |-> "attribute_error", index |-> 0]
NotCalled == [kind |-> "not_called", index |-> 0]

\* request_url_path + "/" unless it already ends with "/".
normalize_path(request_url_path) ==
    IF endswith(request_url_path, "/") THEN request_url_path
    ELSE Append(request_url_path, "/")

\* The generator expression `next((e for e in endpoints if match(e)), None)`:
\* endpoints are tried in order and the scan stops at the first hit. An
\* endpoint whose match is empty makes match(e) read e.endpoint, an
\* attribute Endpoint does not have, which raises AttributeError.
RECURSIVE first_match(_, _, _)
first_match(endpoints, i, path) ==
    IF i > Len(endpoints) THEN NoEndpoint
    ELSE IF Len(endpoints[i]) = 0 THEN AttributeError
    ELSE IF ant_match(endpoints[i], path) THEN Found(i)
    ELSE first_match(endpoints, i + 1, path)

\* RoutingSelector.find_endpoint: the index of the endpoint returned,
\* NoEndpoint when it raises "no endpoint found", AttributeError as above.
find_endpoint(endpoints, request_url_path) ==
    first_match(endpoints, 1, normalize_path(request_url_path))

(***************************************************************************)
(* HTTP values: headers, ASGI messages, Starlette responses.               *)
(***************************************************************************)
\* A header: `num` carries the value of a content-length header, `text`
\* the value of any other header.
Header(name, text) == [name |-> name, text |-> text, num |-> 0]
ContentLength(n) == [name |-> "content-length", text |-> "", num |-> n]

StartMessage(status, headers) ==
    [type |-> "http.response.start", status |-> status, headers |-> headers,
     body |-> <<>>, more_body |-> FALSE]

BodyMessage(body, more_body) ==
    [type |-> "http.response.body", status |-> 0, headers |-> <<>>,
     body |-> body, more_body |-> more_body]

AccessDenied == <<"A", "c", "c", "e", "s", "s", " ", "d", "e", "n", "i", "e", "d">>

InternalServerError ==
    <<"I", "n", "t", "e", "r", "n", "a", "l", " ", "S", "e", "r", "v", "e", "r",
      " ", "E", "r", "r", "o", "r">>

NotFound == <<"N", "o", "t", " ", "F", "o", "u", "n", "d">>

RECURSIVE has_header(_, _)
has_header(headers, name) ==
    IF Len(headers) = 0 THEN FALSE
    ELSE headers[1].name = name \/ has_header(Tail(headers), name)

\* The content-type of a media type: text/ types get the charset appended.
with_charset(media_type) ==
    CASE media_type = "text/plain" -> "text/plain; charset=utf-8"
      [] media_type = "text/octet-stream" -> "text/octet-stream; charset=utf-8"
      [] OTHER -> media_type

\* starlette.responses.Response.init_headers: the given headers, then a
\* content-length of the body unless one was given or the status is 1xx, 204
\* or 304, then the content-type of media_type ("" for None) unless given.
init_headers(status, headers, media_type, has_body, body) ==
    LET with_length ==
            IF has_body /\ ~has_header(headers, "content-length")
                  /\ ~(status < 200 \/ status = 204 \/ status = 304)
            THEN Append(headers, ContentLength(Len(body)))
            ELSE headers
    IN  IF media_type # "" /\ ~has_header(headers, "content-type")
        THEN Append(with_length, Header("content-type", with_charset(media_type)))
        ELSE with_length

\* starlette.responses.Response(content, status_code, headers, media_type)
\* called as an ASGI app: one start message and one final body message.
StarletteResponse(status, headers, media_type, body) ==
    << StartMessage(status, init_headers(status, headers, media_type, TRUE, body)),
       BodyMessage(body, FALSE) >>

\* MutableHeaders.__setitem__("content-length", ...): the first header of
\* that name is overwritten and later ones are dropped, or one is appended.
RECURSIVE drop_header(_, _)
drop_header(headers, name) ==
    IF Len(headers) = 0 THEN <<>>
    ELSE IF headers[1].name = name THEN drop_header(Tail(headers), name)
    ELSE <<headers[1]>> \o drop_header(Tail(headers), name)

RECURSIVE set_content_length(_, _)
set_content_length(headers, n) ==
    IF Len(headers) = 0 THEN <<ContentLength(n)>>
    ELSE IF headers[1].name = "content-length"
         THEN <<ContentLength(n)>> \o drop_header(Tail(headers), "content-length")
    ELSE <<headers[1]>> \o set_content_length(Tail(headers), n)

\* dict(MutableHeaders): one item per header name, in order of first
\* appearance, holding the first value of that name.
RECURSIVE dict_of_headers(_)
dict_of_headers(headers) ==
    IF Len(headers) = 0 THEN <<>>
    ELSE <<headers[1]>> \o dict_of_headers(drop_header(Tail(headers), headers[1].name))

\* str.replace(old, new): left to right, non-overlapping; an empty `old`
\* matches before every character and at the end.
RECURSIVE str_replace(_, _, _)
str_replace(text, old, new) ==
    IF Len(old) = 0
    THEN new \o (IF Len(text) = 0 THEN <<>>
                 ELSE <<text[1]>> \o str_replace(Tail(text), old, new))
    ELSE IF Len(text) < Len(old) THEN text
    ELSE IF SubSeq(text, 1, Len(old)) = old
         THEN new \o str_replace(SubSeq(text, Len(old) + 1, Len(text)), old, new)
    ELSE <<text[1]>> \o str_replace(Tail(text), old, new)

\* base64: every group of up to three bytes becomes one group of the text,
\* written here as a group mark followed by the bytes the group encodes.
RECURSIVE b64encode(_)
b64encode(body) ==
    IF Len(body) = 0 THEN <<>>
    ELSE IF Len(body) <= 3 THEN <<"=">> \o body
    ELSE <<"=">> \o SubSeq(body, 1, 3) \o b64encode(SubSeq(body, 4, Len(body)))

RECURSIVE b64decode(_)
b64decode(content) ==
    IF Len(content) = 0 THEN <<>>
    ELSE IF Len(content) <= 4 THEN Tail(content)
    ELSE SubSeq(content, 2, 4) \o b64decode(SubSeq(content, 5, Len(content)))

(***************************************************************************)
(* Security filters.                                                       *)
(***************************************************************************)
\* any(matcher.match(p, value) for p in patterns), the `for ... if match:
\* respond; return` loops of the filters.
RECURSIVE any_match(_, _)
any_match(patterns, value) ==
    IF Len(patterns) = 0 THEN FALSE
    ELSE ant_match(patterns[1], value) \/ any_match(Tail(patterns), value)

\* A request value that may be absent (scope["client"] is None, no
\* User-Agent header): Python treats None and the empty string alike in
\* `if client_ip:` / `if user_agent:`.
Absent == [present |-> FALSE, value |-> <<>>]
Present(v) == [present |-> TRUE, value |-> v]
Truthy(opt) == opt.present /\ Len(opt.value) > 0

\* BotFilterMiddleware.__call__: "403" when it answers Access denied itself,
\* "pass" when it calls the inner app.
bot_filter_call_nowhitelist(bot_filter, user_agent) ==
    IF bot_filter.enabled /\ Truthy(user_agent)
          /\ any_match(bot_filter.blacklist, user_agent.value)
    THEN "403" ELSE "pass"

bot_filter_call(bot_filter, user_agent) ==
    IF bot_filter.enabled /\ Truthy(user_agent)
    THEN IF any_match(bot_filter.whitelist, user_agent.value) THEN "pass"
         ELSE IF any_match(bot_filter.blacklist, user_agent.value) THEN "403"
         ELSE "pass"
    ELSE "pass"

\* IpFilterMiddleware.__call__.
ip_filter_call(ip_filter, client_ip) ==
    IF ip_filter.enabled /\ Truthy(client_ip)
          /\ any_match(ip_filter.blacklist, client_ip.value)
    THEN "403" ELSE "pass"

\* The bot-filter configurations of the filter checks, after the unit test's
\* blacklist "crawl-***-***-***-***.googlebot.com" and whitelist
\* "crawl-1-***-***-***.googlebot.com", shortened.
BotConfigs ==
    << [enabled |-> TRUE,  whitelist |-> << <<"c", "1", "*">> >>, blacklist |-> << <<"c", "*">> >>],
       [enabled |-> FALSE, whitelist |-> << <<"c", "1", "*">> >>, blacklist |-> << <<"c", "*">> >>],
       [enabled |-> TRUE,  whitelist |-> <<>>, blacklist |-> << <<"x", "?">>, <<"*", "1">> >>],
       [enabled |-> TRUE,  whitelist |-> << <<"*", "x">> >>, blacklist |-> <<>>] >>

UaChars == {"c", "1", "x"}

\* The User-Agent values a request may carry: none, or a non-empty string.
UserAgents == {Absent} \cup {Present(u) : u \in StringsOver(UaChars, MaxUaLen) \ {<<>>}}


(***************************************************************************)
(* The proxy's configuration and its middleware stack.                     *)
(***************************************************************************)
NoTransformers == [present |-> FALSE, enabled |-> FALSE, textReplacements |-> <<>>]

NoTemplate == [status_code |-> 0, content_type |-> "", body |-> <<>>]

\* The variable a replacement's newvalue may hold.
PathVariable == <<"$", "{", "p", "a", "t", "h", "}">>

\* config.endpoints of the pipeline checks: two https backends (methods
\* ["GET"], the default) whose responses are transformed by one and by two
\* replacements, a mock backend, an endpoint without upstream, and an https
\* backend whose replacement looks for a value of two characters.
PipeEndpoints ==
    << [match |-> <<"/", "a", "/", "*">>, upstream |-> "proxy", backend |-> "https",
        methods |-> {"GET"},
        transformers |-> [present |-> TRUE, enabled |-> TRUE,
                          textReplacements |->
                              << [oldvalue |-> <<"a">>, newvalue |-> <<"b", "b">>] >>],
        mock |-> NoTemplate],
       [match |-> <<"/", "t", "/", "*">>, upstream |-> "proxy", backend |-> "https",
        methods |-> {"GET"},
        transformers |-> [present |-> TRUE, enabled |-> TRUE,
                          textReplacements |->
                              << [oldvalue |-> <<"a">>, newvalue |-> <<"c">>],
                                 [oldvalue |-> <<"b">>, newvalue |-> PathVariable] >>],
        mock |-> NoTemplate],
       [match |-> <<"/", "m", "/", "*">>, upstream |-> "proxy", backend |-> "mock",
        methods |-> {},
        transformers |-> NoTransformers,
        mock |-> [status_code |-> 200, content_type |-> "text/plain", body |-> <<"m">>]],
       [match |-> <<"/", "n", "/", "*">>, upstream |-> "none", backend |-> "none",
        methods |-> {},
        transformers |-> NoTransformers,
        mock |-> NoTemplate],
       [match |-> <<"/", "c", "/", "*">>, upstream |-> "proxy", backend |-> "https",
        methods |-> {"GET"},
        transformers |-> [present |-> TRUE, enabled |-> TRUE,
                          textReplacements |->
                              << [oldvalue |-> <<"a", "b">>, newvalue |-> <<"c">>] >>],
        mock |-> NoTemplate] >>

Matches(endpoints) == [i \in 1..Len(endpoints) |-> endpoints[i].match]

\* middlewares.security.ip_filter.blacklist and bot_filter lists,
\* middlewares.performance.resource_filter.skip_paths and
\* middlewares.performance.cache.file.include_patterns of the pipeline checks.
IpBlacklist == << <<"*", ".", "2">> >>
BotWhitelist == << <<"c", "1", "*">> >>
BotBlacklist == << <<"c", "*">> >>
SkipPaths == << <<"f">> >>
IncludePatterns == << <<"/", "*">> >>

\* Which optional middlewares the configuration enables.
MiddlewareFlags ==
    [memory_cache : BOOLEAN, file_cache : BOOLEAN, bot_filter : BOOLEAN,
     ip_filter : BOOLEAN, resource_filter : BOOLEAN]

\* Starlette.add_middleware: user_middleware.insert(0, Middleware(cls)).
add_middleware(user_middleware, cls) == <<cls>> \o user_middleware

Reverse(s) == [i \in 1..Len(s) |-> s[Len(s) + 1 - i]]

\* The same calls without the final user_middleware.reverse().
configure_middlewares_unreversed(flags) ==
    LET m1 == add_middleware(<<>>, "ContentLengthMiddleware")
        m2 == IF flags.memory_cache THEN add_middleware(m1, "InMemoryCacheMiddleware") ELSE m1
        m3 == IF flags.file_cache THEN add_middleware(m2, "InFileCacheMiddleware") ELSE m2
        m4 == IF flags.bot_filter THEN add_middleware(m3, "BotFilterMiddleware") ELSE m3
        m5 == IF flags.ip_filter THEN add_middleware(m4, "IpFilterMiddleware") ELSE m4
        m6 == IF flags.resource_filter THEN add_middleware(m5, "ResourceFilterMiddleware") ELSE m5
        m7 == add_middleware(m6, "CompressionMiddleware")
    IN  add_middleware(m7, "ResponseTransformerMiddleware")

\* ProxyCraft.__init__.configure_middlewares: app.user_middleware once it
\* returns.  Starlette wraps the router in reversed(user_middleware), so the
\* first element is the outermost middleware, the first to see a request.
configure_middlewares(flags) == Reverse(configure_middlewares_unreversed(flags))

\* What a request carries.
Request(path, query_string, method, client_ip, user_agent, gzip, stream) ==
    [path |-> path, query_string |-> query_string, method |-> method, client_ip |-> client_ip,
     user_agent |-> user_agent, gzip |-> gzip, stream |-> stream]

BlockedIp == Present(<<"1", ".", "2">>)
CleanIp == Present(<<"1", ".", "1">>)
BadBot == Present(<<"c", "x">>)
GoodBot == Present(<<"c", "1">>)

\* InFileCacheMiddleware._generate_cache_key: md5 of "path?query", or of the
\* path alone when the query string is empty; the digest is taken to be
\* injective, so the key is written as the string it digests.
generate_cache_key(path, query_string) ==
    IF Len(query_string) > 0 THEN path \o <<"?">> \o query_string ELSE path

\* A cache that takes every path for an included one.
should_cache_path_always(include_patterns, path) == TRUE

\* InFileCacheMiddleware._should_cache_path.
should_cache_path(include_patterns, path) == any_match(include_patterns, path)

\* str.lstrip("/").
RECURSIVE lstrip_slash(_)
lstrip_slash(path) ==
    IF Len(path) > 0 /\ path[1] = "/" THEN lstrip_slash(Tail(path)) ELSE path

\* Scaled-down fields of InFileCacheMiddleware: ttl (86400 in the source),
\* max_entries (10000), content_cache_max_size (1000) and the modulus of the
\* opportunistic cleanup check (10).
ttl == 1
max_entries == 2
content_cache_max_size == 5
cleanup_check_every == 2

(***************************************************************************)
(* State.                                                                  *)
(***************************************************************************)
VARIABLES
    route_table,      \* index into RouteTables: the config the selector holds
    route_path,       \* the request path handed to find_endpoint
    route_result,     \* NotCalled before the call, then what find_endpoint ended with
    bot_config,       \* index into BotConfigs: the config the bot filter holds
    bot_user_agent,   \* the User-Agent of the request handed to the bot filter
    bot_answer,       \* "none" before the call, then "403" or "pass"
    flags,            \* which optional middlewares config.middlewares enables
    user_middleware,  \* app.user_middleware, outermost first
    config_loaded,    \* whether the task InFileCacheMiddleware._load_config has run
    cache_enabled,    \* InFileCacheMiddleware.cache_enabled
    include_patterns, \* InFileCacheMiddleware.include_patterns
    now,              \* time.time()
    response_status,  \* InFileCacheMiddleware.response_status (one per middleware)
    response_headers, \* InFileCacheMiddleware.response_headers (one per middleware)
    content_cache,    \* InFileCacheMiddleware.content_cache
    files,            \* the files of cache_dir, by cache key
    cleanup_lock,     \* InFileCacheMiddleware.cleanup_lock
    tasks,            \* the background tasks started with asyncio.create_task
    req,              \* the requests in flight, by connection
    nreq,             \* how many requests have been received
    fresh,            \* by cache key, the admission that finished last and no
                      \* request has looked up since (history)
    skipped,          \* how many _run_cleanup calls returned at once (history)
    load_source,      \* what ProxyCraft(...) is constructed from
    load_given,       \* the endpoints of that configuration, as written
    constructed,      \* ProxyCraft.__init__ has returned
    config_endpoints, \* ProxyCraft.config.endpoints
    load_handled,     \* how many requests the constructed proxy has handled
    stack,            \* the calls of handle_request in progress, outermost first
    answer,           \* the last call of handle_request made for a client, once
                      \* it has returned (history)
    served,           \* how many client requests the dispatcher has received
    loops,            \* the event loop object at each address, if any
    connectors,       \* _connectors of each manager: id(loop) -> connector
    handed,           \* which loop was handed which connector (history)
    next_loop,        \* how many event loops have been created
    next_connector,   \* how many TCPConnectors have been created
    download_path,    \* what the path given to download_text_file names
    download_pc,      \* "idle", "called", "streaming" (a StreamingResponse was
                      \* returned), "exhausted" (its iterator has ended) or
                      \* "returned" (a Response was returned)
    download_response, \* what download_text_file returned
    streamer_file,    \* the file object of text_file_streamer
    streamed,         \* the chunks the iterator has yielded
    cron_schedule,    \* the schedule given to CronJob
    cron_pc,          \* "idle", "given", "accepted" or "rejected" (ValueError)
    command_pc,       \* Command.handle_request: "idle", "returned" (a JSONResponse),
                      \* or where stream_output stands: "spawn", "reading",
                      \* "draining", "waiting", "done"
    command_status,   \* the status of the response handle_request returned
    process,          \* the subprocess: "none", "running" or "exited"
    pty_data,         \* chunks the subprocess wrote that wait in the pty
    written,          \* how many chunks the subprocess has written (history)
    yielded,          \* how many of them stream_output has yielded
    elapsed,          \* for how long the subprocess has run
    utcnow,           \* datetime.utcnow()
    cached_token,     \* JWTAuth._cached_token
    token_expiry,     \* JWTAuth._token_expiry
    authorization,    \* the token of the header get_headers returned last
    jwt_calls,        \* how many times get_headers was called (history)
    generated,        \* how many tokens were generated (history)
    breaker_enabled,  \* config.middlewares.performance.circuit_breaking.enabled
    breaker_now,      \* time.time()
    failure_counts,   \* CircuitBreakingMiddleware.failure_counts; 0: no entry
    response_times,   \* CircuitBreakingMiddleware.response_times; <<>>: no entry
    last_reset_time,  \* CircuitBreakingMiddleware.last_reset_time
    breaker_path,     \* the path of the last request, "" before the first
    breaker_answer,   \* how the last call ended: the status sent, or "raised"
    app_calls,        \* how many calls reached the inner app (history)
    breaker_calls,    \* how many calls the middleware has handled (history)
    manager_lock,     \* event_loop_manager._lock: "free" or "held"
    cleanup_pc,       \* cleanup_all: "idle", "locked" (it runs and holds the
                      \* lock), "closing" (it is suspended in `await
                      \* connector.close()`) or "returned"
    cleanup_loop,     \* the address of the loop that runs cleanup_all
    remaining,        \* the addresses whose connectors its loop has yet to visit
    held_connectors,  \* the connectors the dict held when it began (history)
    closed,           \* the connectors that were closed
    blocked,          \* the addresses of the loops whose thread waits for the lock
    waited,           \* the addresses of the loops whose thread has waited (history)
    suspensions,      \* how many times cleanup_all was suspended (history)
    forge_request,    \* the backend url, endpoint prefix, request path and query
                      \* that Https.handle_request forges the target from
    forge_pc,         \* "idle", "called" (the handler has the request) or
                      \* "returned" (_forge_target_url has returned)
    target_url        \* what it returned

routeVars == <<route_table, route_path, route_result>>
botVars == <<bot_config, bot_user_agent, bot_answer>>
configVars == <<flags, user_middleware>>
cacheVars == <<config_loaded, cache_enabled, include_patterns, response_status,
               response_headers, content_cache, files, cleanup_lock, tasks, fresh,
               skipped>>
pipeVars == <<configVars, cacheVars, now, req, nreq>>

loadVars == <<load_source, load_given, constructed, config_endpoints, load_handled>>
dispatchVars == <<stack, answer, served>>

forgeVars == <<forge_request, forge_pc, target_url>>
connVars == <<loops, connectors, handed, next_loop, next_connector>>
downloadVars == <<download_path, download_pc, download_response, streamer_file, streamed>>
cronVars == <<cron_schedule, cron_pc>>
commandVars == <<command_pc, command_status, process, pty_data, written, yielded, elapsed>>
helperVars == <<forgeVars, connVars, downloadVars, cronVars>>
jwtVars == <<utcnow, cached_token, token_expiry, authorization, jwt_calls, generated>>
breakerVars == <<breaker_enabled, breaker_now, failure_counts, response_times,
                 last_reset_time, breaker_path, breaker_answer, app_calls,
                 breaker_calls>>
lockVars == <<manager_lock, cleanup_pc, cleanup_loop, remaining, held_connectors, closed,
              blocked, waited, suspensions>>
serviceVars == <<commandVars, jwtVars, breakerVars, lockVars>>
utilVars == <<helperVars, serviceVars>>
otherThanForge == <<connVars, downloadVars, cronVars, serviceVars>>
otherThanConn == <<forgeVars, downloadVars, cronVars, serviceVars>>
otherThanDownload == <<forgeVars, connVars, cronVars, serviceVars>>
otherThanCron == <<forgeVars, connVars, downloadVars, serviceVars>>
otherThanCommand == <<helperVars, jwtVars, breakerVars, lockVars>>
otherThanJwt == <<helperVars, commandVars, breakerVars, lockVars>>
otherThanBreaker == <<helperVars, commandVars, jwtVars, lockVars>>
otherThanLock == <<forgeVars, downloadVars, cronVars, commandVars, jwtVars, breakerVars>>

vars == <<routeVars, botVars, pipeVars, loadVars, dispatchVars, utilVars>>

\* The request paths of the pipeline checks and their cache keys.
AllPaths ==
    { <<"/", "a">>, <<"/", "t">>, <<"/", "m">>, <<"/", "n">>, <<"/", "x">>, <<"/", "f">>,
      <<"/", "m", "/">>, <<"/", "c">> }
AllQueries == { <<>>, <<"q">> }
Keys == { generate_cache_key(p, q) : p \in AllPaths, q \in AllQueries }

\* What the response looked like to the cache's send_wrapper, kept with each
\* cache entry made from it (history): the request, the status and headers
\* of its start message, every body chunk and whether the final one was seen.
Origin(id, status, headers, body, complete) ==
    [id |-> id, status |-> status, headers |-> headers, body |-> body,
     complete |-> complete]

NoOrigin == Origin(0, 0, <<>>, <<>>, FALSE)

\* cache_data of _cache_response; `is_bytes` holds once __call__ has put
\* the decoded bytes in place of the base64 text, `origin` is history.
CacheData(timestamp, status_code, content, headers, origin) ==
    [timestamp |-> timestamp, status_code |-> status_code, content |-> content,
     is_bytes |-> FALSE, headers |-> headers, origin |-> origin]

NoData == CacheData(0, 0, <<>>, <<>>, NoOrigin)

\* A file of cache_dir: `json` holds while its content parses as JSON, which
\* it does not between the truncating open and the write.
NoFile == [exists |-> FALSE, json |-> FALSE, data |-> NoData, mtime |-> 0]
EmptyFile(mtime) == [exists |-> TRUE, json |-> FALSE, data |-> NoData, mtime |-> mtime]
JsonFile(cache_data, mtime) ==
    [exists |-> TRUE, json |-> TRUE, data |-> cache_data, mtime |-> mtime]

\* An item of the dict content_cache, which keeps its keys in insertion order.
Cached(key, timestamp, cache_data) ==
    [key |-> key, timestamp |-> timestamp, data |-> cache_data]

NoFresh == [valid |-> FALSE, data |-> NoData]

\* A background task and the local variables it holds: `id` is the request
\* it goes back to, `unlinked` holds once the file it has open was removed,
\* `todo` are the files a cleanup has yet to look at.
Task(kind, id, pc, key, data, body) ==
    [kind |-> kind, id |-> id, pc |-> pc, key |-> key, data |-> data, body |-> body,
     unlinked |-> FALSE, todo |-> <<>>, current_time |-> 0]

NoRequest == Request(<<>>, <<>>, "GET", Absent, Absent, FALSE, FALSE)

\* One request: where its coroutine stands, what its middlewares hold in
\* their local variables, and what the client has received.
NewReq(id, request) ==
    [pc |-> "running", id |-> id, request |-> request,
     trace |-> <<>>,            \* the middlewares entered, in order
     level |-> 0,               \* the middleware whose await the request waits in
     wrapped |-> FALSE,         \* the cache's send_wrapper is installed
     response_sent |-> FALSE,   \* send_wrapper: response_sent
     response_body |-> <<>>,    \* send_wrapper: response_body
     cl_status |-> 0,           \* ContentLengthMiddleware: response_status
     cl_headers |-> <<>>,       \* ContentLengthMiddleware: response_headers
     cl_data |-> <<>>,          \* ContentLengthMiddleware: response_data, joined
     pending |-> <<>>,          \* chunks the streaming body has yet to yield
     out |-> <<>>,              \* messages delivered to the client
     raised |-> FALSE,          \* an exception is propagating
     handler_called |-> FALSE,  \* handle_request ran (history)
     upstream_calls |-> 0,      \* requests made to the upstream (history)
     upstream_answered |-> FALSE, \* the upstream sent a response with a body (history)
     upstream_body |-> <<>>,    \* that body (history)
     origin |-> NoOrigin,       \* the response as send_wrapper saw it (history)
     looked_up_at |-> 0,        \* when the cache lookup was decided (history)
     hit |-> FALSE,             \* served from the cache (history)
     hit_data |-> NoData,       \* the entry served (history)
     expected |-> NoFresh,      \* the finished admission found at arrival (history)
     read_failed |-> FALSE,     \* reading the cache file raised (history)
     write_failed |-> FALSE]    \* writing the response's entry raised (history)

IdleReq == [NewReq(0, NoRequest) EXCEPT !.pc = "idle"]

(***************************************************************************)
(* The response path: the send wrappers a message crosses on its way from  *)
(* the middleware or handler that sends it to the client.                  *)
(***************************************************************************)
\* What one step of a request works on: the request and the attributes of
\* the cache middleware that its send wrapper writes.
World(rq) ==
    [rq |-> rq, response_status |-> response_status,
     response_headers |-> response_headers, tasks |-> tasks]

\* bytes.decode() succeeds unless the body holds a byte that is no UTF-8.
decodable(body) == \A i \in 1..Len(body) : body[i] # "0xFF"

\* The loop over textReplacements of send_with_transformation: every pass
\* assigns message["body"] from the text of the original body.
RECURSIVE apply_replacements(_, _, _, _)
apply_replacements(textReplacements, text_content, path, body) ==
    IF Len(textReplacements) = 0 THEN body
    ELSE apply_replacements(
             Tail(textReplacements), text_content, path,
             str_replace(text_content, textReplacements[1].oldvalue,
                         str_replace(textReplacements[1].newvalue, PathVariable, path)))

\* ResponseTransformerMiddleware.send_with_transformation on a body message
\* of a routed path.
transformed(endpoint, path, message) ==
    IF endpoint.transformers.present
          /\ Len(endpoint.transformers.textReplacements) > 0
          /\ endpoint.transformers.enabled
    THEN [message EXCEPT !.body = apply_replacements(
              endpoint.transformers.textReplacements, message.body, path, message.body)]
    ELSE message

\* The task send_wrapper creates for a complete response.
cache_response(key, status_code, headers, body, origin) ==
    Task("cache_response", origin.id, "start", key,
         CacheData(0, status_code, <<>>, dict_of_headers(headers), origin), body)

\* InFileCacheMiddleware.__call__.send_wrapper, up to its `await send`.
in_file_send_wrapper(S, key, message) ==
    IF message.type = "http.response.start"
    THEN [S EXCEPT !.response_status = message.status,
                   !.response_headers = message.headers,
                   !.rq.response_sent = TRUE,
                   !.rq.origin = Origin(S.rq.id, message.status, message.headers,
                                        <<>>, FALSE)]
    ELSE LET seen == [S EXCEPT !.rq.origin.body = @ \o message.body,
                               !.rq.origin.complete = ~message.more_body]
         IN  IF S.rq.response_sent /\ 200 <= S.response_status /\ S.response_status < 400
             THEN LET response_body == S.rq.response_body \o message.body
                  IN  [seen EXCEPT
                          !.rq.response_body = response_body,
                          !.tasks =
                              IF ~message.more_body /\ Len(response_body) > 0
                              THEN @ \cup {cache_response(key, S.response_status,
                                               S.response_headers, response_body,
                                               seen.rq.origin)}
                              ELSE @]
             ELSE seen

RequestKey(rq) == generate_cache_key(rq.request.path, rq.request.query_string)

\* A message handed to the `send` that middleware j + 1 was called with: it
\* crosses the wrappers of the middlewares j, j - 1, ..., 1 and reaches the
\* client.  Nothing is sent once an exception propagates.
RECURSIVE send_up(_, _, _)
send_up(S, j, message) ==
    IF S.rq.raised THEN S
    ELSE IF j = 0 THEN [S EXCEPT !.rq.out = Append(@, message)]
    ELSE LET cls == user_middleware[j]
         IN  CASE cls = "ResponseTransformerMiddleware" ->
                    IF message.type = "http.response.start" \/ ~decodable(message.body)
                    THEN send_up(S, j - 1, message)
                    ELSE LET found == find_endpoint(Matches(PipeEndpoints), S.rq.request.path)
                         IN  IF found.kind # "endpoint"
                             THEN [S EXCEPT !.rq.raised = TRUE]
                             ELSE send_up(S, j - 1,
                                          transformed(PipeEndpoints[found.index],
                                                      S.rq.request.path, message))
               [] cls = "InFileCacheMiddleware" /\ S.rq.wrapped ->
                    send_up(in_file_send_wrapper(S, RequestKey(S.rq), message), j - 1, message)
               [] cls = "ContentLengthMiddleware" ->
                    IF message.type = "http.response.start"
                    THEN [S EXCEPT !.rq.cl_status = message.status,
                                   !.rq.cl_headers = drop_header(message.headers, "content-length")]
                    ELSE LET total_body == S.rq.cl_data \o message.body
                             collected == [S EXCEPT !.rq.cl_data = total_body]
                         IN  IF message.more_body THEN collected
                             ELSE LET response_headers_ ==
                                          Append(S.rq.cl_headers, ContentLength(Len(total_body)))
                                      done == [collected EXCEPT !.rq.cl_headers = response_headers_]
                                  IN  send_up(send_up(done, j - 1,
                                                      StartMessage(S.rq.cl_status, response_headers_)),
                                              j - 1, BodyMessage(total_body, FALSE))
               [] OTHER -> send_up(S, j - 1, message)

\* response(scope, receive, send) of a starlette Response, and every other
\* run of sends without an await between them.
RECURSIVE send_all(_, _, _)
send_all(S, j, messages) ==
    IF Len(messages) = 0 THEN S
    ELSE send_all(send_up(S, j, messages[1]), j, Tail(messages))

(***************************************************************************)
(* The request path: the middlewares' __call__ and the handler.            *)
(***************************************************************************)
\* str(e) of the exception find_endpoint raised.
error_text(found, path) ==
    IF found.kind = "no_endpoint"
    THEN <<"n", "o", " ", "e", "n", "d", "p", "o", "i", "n", "t", " ", "f", "o", "u",
           "n", "d", " ", "f", "o", "r", " ">> \o normalize_path(path)
    ELSE <<"n", "o", " ", "a", "t", "t", "r", "i", "b", "u", "t", "e">>

\* str(e) of the HTTPException(405, "Http method not supported") that
\* Https.handle_request raises.
MethodNotSupported ==
    <<"4", "0", "5", ":", " ", "H", "t", "t", "p", " ", "m", "e", "t", "h", "o", "d", " ",
      "n", "o", "t", " ", "s", "u", "p", "p", "o", "r", "t", "e", "d">>

\* json.dumps of a string of plain characters.
json_dumps_str(body) == <<"\"">> \o body \o <<"\"">>

\* Mock.handle_request on the template found for the path.
mock_response(template) ==
    IF template.content_type = "application/json"
    THEN StarletteResponse(template.status_code, <<>>, "application/json",
                           json_dumps_str(template.body))
    ELSE StarletteResponse(template.status_code, <<>>, template.content_type,
                           template.body)

\* handle_request, called by the route: the response it returns is sent at
\* once, except behind an https backend, whose answer it awaits.
handle_request(S, i) ==
    LET entered == [S EXCEPT !.rq.trace = Append(@, "handle_request"),
                             !.rq.handler_called = TRUE]
        path == S.rq.request.path
        found == find_endpoint(Matches(PipeEndpoints), path)
    IN  IF found.kind # "endpoint"
        THEN send_all(entered, i - 1,
                      StarletteResponse(500, <<Header("content-type", "application/json")>>,
                                        "", error_text(found, path)))
        ELSE LET endpoint == PipeEndpoints[found.index]
             IN  IF endpoint.upstream = "proxy"
                 THEN IF endpoint.backend = "mock"
                      THEN send_all(entered, i - 1, mock_response(endpoint.mock))
                      ELSE IF S.rq.request.method \notin endpoint.methods
                      THEN send_all(entered, i - 1,
                                    StarletteResponse(
                                        500, <<Header("content-type", "application/json")>>,
                                        "", MethodNotSupported))
                      ELSE [entered EXCEPT !.rq.pc = "handler", !.rq.level = i,
                                           !.rq.upstream_calls = @ + 1]
                 ELSE send_all(entered, i - 1,
                               StarletteResponse(404, <<>>, "text/plain", NotFound))

\* UpstreamConfig has no attribute `backends`, so CompressionMiddleware's
\* `hasattr(endpoint.upstream, "backends")` never holds.
upstream_has_backends == FALSE

\* The __call__ of middleware i of the stack and of everything it calls
\* before the request first waits: user_middleware[i] for i up to the length
\* of the stack, then the route's handler.
RECURSIVE call_app(_, _)
call_app(S, i) ==
    IF i > Len(user_middleware) THEN handle_request(S, i)
    ELSE LET cls == user_middleware[i]
             request == S.rq.request
             entered == [S EXCEPT !.rq.trace = Append(@, cls)]
         IN  CASE cls = "InFileCacheMiddleware" ->
                    IF ~cache_enabled \/ request.method # "GET"
                          \/ ~should_cache_path(include_patterns, request.path)
                    THEN call_app(entered, i + 1)
                    ELSE [entered EXCEPT !.rq.pc = "lookup_exists", !.rq.level = i]
               [] cls = "BotFilterMiddleware" ->
                    IF bot_filter_call([enabled |-> flags.bot_filter,
                                        whitelist |-> BotWhitelist,
                                        blacklist |-> BotBlacklist],
                                       request.user_agent) = "403"
                    THEN send_all(entered, i - 1, StarletteResponse(403, <<>>, "", AccessDenied))
                    ELSE call_app(entered, i + 1)
               [] cls = "IpFilterMiddleware" ->
                    IF ip_filter_call([enabled |-> flags.ip_filter, blacklist |-> IpBlacklist],
                                      request.client_ip) = "403"
                    THEN send_all(entered, i - 1, StarletteResponse(403, <<>>, "", AccessDenied))
                    ELSE call_app(entered, i + 1)
               [] cls = "ResourceFilterMiddleware" ->
                    IF flags.resource_filter /\ Len(SkipPaths) > 0
                          /\ any_match(SkipPaths, lstrip_slash(request.path))
                    THEN send_all(entered, i - 1, StarletteResponse(204, <<>>, "", <<>>))
                    ELSE call_app(entered, i + 1)
               [] cls = "CompressionMiddleware" ->
                    IF ~request.gzip THEN call_app(entered, i + 1)
                    ELSE IF find_endpoint(Matches(PipeEndpoints), request.path).kind # "endpoint"
                         THEN [entered EXCEPT !.rq.raised = TRUE]
                    ELSE IF upstream_has_backends
                         THEN [entered EXCEPT !.rq.pc = "gzip"]
                    ELSE call_app(entered, i + 1)
               [] OTHER -> call_app(entered, i + 1)

\* The end of a step: an exception that reached ServerErrorMiddleware is
\* answered 500 unless the response has started; a coroutine that did not
\* stop at an await has returned.
finish(S) ==
    IF S.rq.raised
    THEN [S EXCEPT !.rq.pc = "done",
                   !.rq.out = IF Len(@) = 0
                              THEN StarletteResponse(500, <<>>, "text/plain", InternalServerError)
                              ELSE @]
    ELSE IF S.rq.pc = "running" THEN [S EXCEPT !.rq.pc = "done"]
    ELSE S

(***************************************************************************)
(* The dict content_cache.                                                 *)
(***************************************************************************)
dict_has(cache, key) == \E i \in 1..Len(cache) : cache[i].key = key

dict_get(cache, key) == cache[CHOOSE i \in 1..Len(cache) : cache[i].key = key]

\* cache[key] = item: an existing key keeps its place.
dict_set(cache, item) ==
    IF dict_has(cache, item.key)
    THEN [i \in 1..Len(cache) |-> IF cache[i].key = item.key THEN item ELSE cache[i]]
    ELSE Append(cache, item)

RECURSIVE dict_pop(_, _)
dict_pop(cache, key) ==
    IF Len(cache) = 0 THEN <<>>
    ELSE IF cache[1].key = key THEN Tail(cache)
    ELSE <<cache[1]>> \o dict_pop(Tail(cache), key)

\* Pops the n first keys of sorted(cache.keys(), key=timestamp), a stable sort.
RECURSIVE pop_oldest(_, _)
pop_oldest(cache, n) ==
    IF n = 0 \/ Len(cache) = 0 THEN cache
    ELSE LET i == CHOOSE i \in 1..Len(cache) :
                      /\ \A j \in 1..Len(cache) : cache[i].timestamp <= cache[j].timestamp
                      /\ \A j \in 1..(i - 1) : cache[j].timestamp > cache[i].timestamp
         IN  pop_oldest(dict_pop(cache, cache[i].key), n - 1)

\* _get_cached_response: "keep memory cache size in check".
evict(cache) ==
    IF Len(cache) > content_cache_max_size
    THEN pop_oldest(cache, (content_cache_max_size * 2) \div 10)
    ELSE cache

\* _run_cleanup: the memory entries that have not expired.
RECURSIVE drop_expired(_, _)
drop_expired(cache, current_time) ==
    IF Len(cache) = 0 THEN <<>>
    ELSE IF current_time - cache[1].timestamp > ttl
         THEN drop_expired(Tail(cache), current_time)
    ELSE <<cache[1]>> \o drop_expired(Tail(cache), current_time)

(***************************************************************************)
(* Requests.                                                               *)
(***************************************************************************)
Apply(r, S) ==
    /\ req' = [req EXCEPT ![r] = S.rq]
    /\ response_status' = S.response_status
    /\ response_headers' = S.response_headers
    /\ tasks' = S.tasks

\* The task InFileCacheMiddleware.__init__ creates: _load_config.
LoadConfig ==
    /\ flags.file_cache
    /\ ~config_loaded
    /\ config_loaded' = TRUE
    /\ cache_enabled' = flags.file_cache
    /\ include_patterns' = IF flags.file_cache THEN IncludePatterns ELSE <<>>
    /\ UNCHANGED <<routeVars, botVars, loadVars, utilVars, dispatchVars,
                   configVars, now, response_status, response_headers,
                   content_cache, files, cleanup_lock, tasks, req, nreq, fresh, skipped>>

\* A request arrives on connection r and runs until its first await.
Receive(r, request, max_requests) ==
    /\ req[r].pc \in {"idle", "done", "cancelled"}
    /\ nreq < max_requests
    /\ nreq' = nreq + 1
    /\ LET key == generate_cache_key(request.path, request.query_string)
           arrived == [NewReq(nreq + 1, request) EXCEPT
                          !.expected = IF request.method = "GET" THEN fresh[key] ELSE NoFresh]
       IN  /\ fresh' = IF request.method = "GET" THEN [fresh EXCEPT ![key] = NoFresh] ELSE fresh
           /\ Apply(r, finish(call_app(World(arrived), 1)))
    /\ UNCHANGED <<routeVars, botVars, loadVars, utilVars, dispatchVars,
                   configVars, config_loaded, cache_enabled,
                   include_patterns, now, content_cache, files, cleanup_lock, skipped>>

\* "Cache miss": the inner app is called with send_wrapper.
Miss(r, new_tasks) ==
    LET rq == [req[r] EXCEPT !.wrapped = TRUE, !.pc = "running", !.looked_up_at = now]
    IN  Apply(r, finish(call_app([World(rq) EXCEPT !.tasks = new_tasks], req[r].level + 1)))

\* _get_cached_response: os.path.exists has answered.
LookupExists(r) ==
    /\ req[r].pc = "lookup_exists"
    /\ IF files[RequestKey(req[r])].exists
       THEN /\ req' = [req EXCEPT ![r].pc = "lookup_read"]
            /\ UNCHANGED <<response_status, response_headers, tasks>>
       ELSE Miss(r, tasks)
    /\ UNCHANGED <<routeVars, botVars, loadVars, utilVars, dispatchVars,
                   configVars, config_loaded, cache_enabled,
                   include_patterns, now, content_cache, files, cleanup_lock, nreq, fresh, skipped>>

\* _send_cached_response.
cached_response(cache_data) ==
    LET content == b64decode(cache_data.content)
        headers == [i \in 1..Len(cache_data.headers) |->
                        IF cache_data.headers[i].name = "content-length"
                        THEN ContentLength(Len(content))
                        ELSE cache_data.headers[i]]
    IN  << StartMessage(cache_data.status_code,
                        Append(headers, Header("x-cache-status", "HIT"))),
           BodyMessage(content, FALSE) >>

\* memory-first lookup: the commented-out block of __call__, which serves
\* the memory entry while its own timestamp is within ttl.
lookup_memory_first(cache, key, file) ==
    IF dict_has(cache, key) /\ now - dict_get(cache, key).timestamp <= ttl
    THEN [hit |-> TRUE, expired |-> FALSE,
          data |-> LET cache_data == dict_get(cache, key).data
                   IN  IF cache_data.is_bytes
                       THEN [cache_data EXCEPT !.content = b64encode(@), !.is_bytes = FALSE]
                       ELSE cache_data]
    ELSE [hit |-> file.exists /\ file.json /\ now - file.data.timestamp <= ttl,
          expired |-> file.exists /\ file.json /\ now - file.data.timestamp > ttl,
          data |-> file.data]

\* What the lookup of __call__ finds once the file is read: a HIT on an
\* entry of the file within ttl, an expired entry, or nothing.
lookup(cache, key, file) ==
    [hit |-> file.exists /\ file.json /\ now - file.data.timestamp <= ttl,
     expired |-> file.exists /\ file.json /\ now - file.data.timestamp > ttl,
     data |-> file.data]

\* _get_cached_response: the file is read; then a HIT is sent or the inner
\* app is called.
LookupRead(r) ==
    /\ req[r].pc = "lookup_read"
    /\ LET key == RequestKey(req[r])
           found == lookup(content_cache, key, files[key])
       IN  IF found.hit
           THEN /\ content_cache' =
                    evict(dict_set(content_cache,
                                   Cached(key, now, [found.data EXCEPT
                                                         !.content = b64decode(@),
                                                         !.is_bytes = TRUE])))
                /\ LET rq == [req[r] EXCEPT !.pc = "running", !.looked_up_at = now,
                                            !.hit = TRUE, !.hit_data = found.data]
                   IN  Apply(r, finish(send_all(World(rq), req[r].level - 1,
                                                cached_response(found.data))))
           ELSE /\ content_cache' = content_cache
                /\ Miss(r, IF found.expired
                           THEN tasks \cup {Task("delete_file", req[r].id, "exists", key, NoData, <<>>)}
                           ELSE tasks)
    /\ UNCHANGED <<routeVars, botVars, loadVars, utilVars, dispatchVars,
                   configVars, config_loaded, cache_enabled,
                   include_patterns, now, files, cleanup_lock, nreq, fresh, skipped>>

\* What the upstream of an https backend may answer.
Reply(kind, status, content_type, body) ==
    [kind |-> kind, status |-> status, content_type |-> content_type, body |-> body]

\* HTTPS_aiohttp.request and the end of Https.handle_request, or the
\* except clauses of handle_request when the upstream call raised.
https_response(reply) ==
    CASE reply.kind = "timeout" ->
            StarletteResponse(408, <<Header("content-type", "application/json")>>, "",
                              <<"R", "e", "q", "u", "e", "s", "t", " ", "t", "i", "m",
                                "e", "d", " ", "o", "u", "t">>)
      [] reply.kind = "error" ->
            StarletteResponse(500, <<Header("content-type", "application/json")>>, "",
                              <<"e", "r", "r", "o", "r">>)
      [] reply.content_type = "" ->
            << StartMessage(204, set_content_length(init_headers(204, <<>>, "", TRUE, <<>>), 0)),
               BodyMessage(<<>>, FALSE) >>
      [] OTHER ->
            << StartMessage(reply.status,
                            set_content_length(
                                init_headers(reply.status, <<>>, reply.content_type,
                                             TRUE, reply.body),
                                Len(reply.body))),
               BodyMessage(reply.body, FALSE) >>

\* The upstream has answered a request that does not accept a stream.
HttpsResponse(r, reply) ==
    /\ req[r].pc = "handler"
    /\ ~req[r].request.stream
    /\ Apply(r, finish(send_all(World([req[r] EXCEPT
                                           !.pc = "running",
                                           !.upstream_answered =
                                               reply.kind = "response" /\ reply.content_type # "",
                                           !.upstream_body = reply.body]),
                                req[r].level - 1, https_response(reply))))
    /\ UNCHANGED <<routeVars, botVars, loadVars, utilVars, dispatchVars,
                   configVars, config_loaded, cache_enabled,
                   include_patterns, now, content_cache, files, cleanup_lock, nreq, fresh, skipped>>

\* A request that accepts a stream gets a StreamingResponse: its start
\* message is sent, its chunks follow as the upstream delivers them.
HttpsStream(r, chunks) ==
    /\ req[r].pc = "handler"
    /\ req[r].request.stream
    /\ LET start == StartMessage(200, init_headers(200, <<Header("cache-control", "no-cache")>>,
                                                    "text/octet-stream", FALSE, <<>>))
           rq == [req[r] EXCEPT !.pc = "streaming", !.pending = chunks]
       IN  Apply(r, finish(send_up(World(rq), req[r].level - 1, start)))
    /\ UNCHANGED <<routeVars, botVars, loadVars, utilVars, dispatchVars,
                   configVars, config_loaded, cache_enabled,
                   include_patterns, now, content_cache, files, cleanup_lock, nreq, fresh, skipped>>

StreamChunk(r) ==
    /\ req[r].pc = "streaming"
    /\ Len(req[r].pending) > 0
    /\ LET rq == [req[r] EXCEPT !.pending = Tail(@),
                                !.upstream_body = @ \o Head(req[r].pending)]
       IN  Apply(r, finish(send_up(World(rq), req[r].level - 1,
                                   BodyMessage(Head(req[r].pending), TRUE))))
    /\ UNCHANGED <<routeVars, botVars, loadVars, utilVars, dispatchVars,
                   configVars, config_loaded, cache_enabled,
                   include_patterns, now, content_cache, files, cleanup_lock, nreq, fresh, skipped>>

\* The body iterator is exhausted: the final, empty body message.
StreamEnd(r) ==
    /\ req[r].pc = "streaming"
    /\ Len(req[r].pending) = 0
    /\ Apply(r, finish(send_up(World([req[r] EXCEPT !.pc = "running"]), req[r].level - 1,
                               BodyMessage(<<>>, FALSE))))
    /\ UNCHANGED <<routeVars, botVars, loadVars, utilVars, dispatchVars,
                   configVars, config_loaded, cache_enabled,
                   include_patterns, now, content_cache, files, cleanup_lock, nreq, fresh, skipped>>

\* The request's task is cancelled at an await (the client went away).
Cancel(r) ==
    /\ req[r].pc \in {"lookup_exists", "lookup_read", "handler", "streaming"}
    /\ req' = [req EXCEPT ![r].pc = "cancelled"]
    /\ UNCHANGED <<routeVars, botVars, loadVars, utilVars, dispatchVars,
                   configVars, cacheVars, now, nreq>>

Tick(max_time) ==
    /\ now < max_time
    /\ now' = now + 1
    /\ UNCHANGED <<routeVars, botVars, loadVars, utilVars, dispatchVars,
                   configVars, cacheVars, req, nreq>>

(***************************************************************************)
(* Background tasks of the file cache.                                     *)
(***************************************************************************)
Replace(t, u) == (tasks \ {t}) \cup {u}

\* The writers that hold the file of `key` open lose it when it is removed.
unlink(ts, key) ==
    { IF t.kind = "cache_response" /\ t.pc = "write" /\ t.key = key
      THEN [t EXCEPT !.unlinked = TRUE] ELSE t : t \in ts }

\* _cache_response up to its first await: cache_data is built and stored in
\* the memory cache.
CacheResponseStart(t) ==
    /\ t.kind = "cache_response" /\ t.pc = "start"
    /\ LET cache_data == [t.data EXCEPT !.timestamp = now, !.content = b64encode(t.body)]
       IN  /\ content_cache' = dict_set(content_cache, Cached(t.key, now, cache_data))
           /\ tasks' = Replace(t, [t EXCEPT !.pc = "open", !.data = cache_data])
    /\ UNCHANGED <<routeVars, botVars, loadVars, utilVars, dispatchVars,
                   configVars, config_loaded, cache_enabled,
                   include_patterns, now, response_status, response_headers, files,
                   cleanup_lock, req, nreq, fresh, skipped>>

\* aiofiles.open(cache_file, "w"): the file is created or truncated.
CacheResponseOpen(t) ==
    /\ t.kind = "cache_response" /\ t.pc = "open"
    /\ files' = [files EXCEPT ![t.key] = EmptyFile(now)]
    /\ tasks' = Replace(t, [t EXCEPT !.pc = "write"])
    /\ UNCHANGED <<routeVars, botVars, loadVars, utilVars, dispatchVars,
                   configVars, config_loaded, cache_enabled,
                   include_patterns, now, response_status, response_headers,
                   content_cache, cleanup_lock, req, nreq, fresh, skipped>>

\* f.write(content) and the close, then the check "if we need cleanup".
CacheResponseWrite(t) ==
    /\ t.kind = "cache_response" /\ t.pc = "write"
    /\ files' = IF t.unlinked THEN files
                ELSE [files EXCEPT ![t.key] = JsonFile(t.data, now)]
    /\ tasks' = (tasks \ {t}) \cup
                    IF Len(content_cache) % cleanup_check_every = 0
                    THEN {Task("maybe_cleanup", t.id, "start", <<>>, NoData, <<>>)}
                    ELSE {}
    /\ fresh' = IF t.unlinked THEN fresh
                ELSE [fresh EXCEPT ![t.key] = [valid |-> TRUE, data |-> t.data]]
    /\ UNCHANGED <<routeVars, botVars, loadVars, utilVars, dispatchVars,
                   configVars, config_loaded, cache_enabled,
                   include_patterns, now, response_status, response_headers,
                   content_cache, cleanup_lock, req, nreq, skipped>>

\* _delete_file: os.path.exists has answered.
DeleteFileExists(t) ==
    /\ t.kind = "delete_file" /\ t.pc = "exists"
    /\ tasks' = IF files[t.key].exists THEN Replace(t, [t EXCEPT !.pc = "remove"])
                ELSE tasks \ {t}
    /\ UNCHANGED <<routeVars, botVars, loadVars, utilVars, dispatchVars,
                   configVars, config_loaded, cache_enabled,
                   include_patterns, now, response_status, response_headers,
                   content_cache, files, cleanup_lock, req, nreq, fresh, skipped>>

\* _delete_file: os.remove, whatever the file holds by now.
DeleteFileRemove(t) ==
    /\ t.kind = "delete_file" /\ t.pc = "remove"
    /\ files' = [files EXCEPT ![t.key] = NoFile]
    /\ tasks' = unlink(tasks \ {t}, t.key)
    /\ UNCHANGED <<routeVars, botVars, loadVars, utilVars, dispatchVars,
                   configVars, config_loaded, cache_enabled,
                   include_patterns, now, response_status, response_headers,
                   content_cache, cleanup_lock, req, nreq, fresh, skipped>>

\* _maybe_cleanup_cache up to its await.
MaybeCleanupStart(t) ==
    /\ t.kind = "maybe_cleanup" /\ t.pc = "start"
    /\ tasks' = IF cleanup_lock THEN tasks \ {t} ELSE Replace(t, [t EXCEPT !.pc = "count"])
    /\ UNCHANGED <<routeVars, botVars, loadVars, utilVars, dispatchVars,
                   configVars, config_loaded, cache_enabled,
                   include_patterns, now, response_status, response_headers,
                   content_cache, files, cleanup_lock, req, nreq, fresh, skipped>>

\* _maybe_cleanup_cache: the files are counted.
MaybeCleanupCount(t) ==
    /\ t.kind = "maybe_cleanup" /\ t.pc = "count"
    /\ LET cache_count == Cardinality({k \in Keys : files[k].exists})
       IN  tasks' = (tasks \ {t}) \cup
                        IF cache_count * 10 > max_entries * 9
                        THEN {Task("run_cleanup", t.id, "start", <<>>, NoData, <<>>)}
                        ELSE {}
    /\ UNCHANGED <<routeVars, botVars, loadVars, utilVars, dispatchVars,
                   configVars, config_loaded, cache_enabled,
                   include_patterns, now, response_status, response_headers,
                   content_cache, files, cleanup_lock, req, nreq, fresh, skipped>>

\* _run_cleanup without its lock: it always runs.
run_cleanup_unlocked(locked) == "run"

\* _run_cleanup: "skip" when the lock is held; else the lock, which is free,
\* is taken without waiting and the pass runs.
run_cleanup_enter(locked) == IF locked THEN "skip" ELSE "run"

\* _run_cleanup up to the await of _cleanup_cache.
RunCleanupStart(t) ==
    /\ t.kind = "run_cleanup" /\ t.pc = "start"
    /\ IF run_cleanup_enter(cleanup_lock) = "skip"
       THEN /\ tasks' = tasks \ {t}
            /\ skipped' = skipped + 1
            /\ UNCHANGED <<cleanup_lock, content_cache>>
       ELSE /\ cleanup_lock' = TRUE
            /\ content_cache' = drop_expired(content_cache, now)
            /\ tasks' = Replace(t, [t EXCEPT !.pc = "listdir"])
            /\ UNCHANGED skipped
    /\ UNCHANGED <<routeVars, botVars, loadVars, utilVars, dispatchVars,
                   configVars, config_loaded, cache_enabled,
                   include_patterns, now, response_status, response_headers,
                   files, req, nreq, fresh>>

\* The loop of _cleanup_cache up to its next await: files whose memory entry
\* is within ttl are passed over, an expired memory entry is popped.
RECURSIVE advance(_, _, _)
advance(todo, cache, current_time) ==
    IF Len(todo) = 0 THEN [todo |-> todo, cache |-> cache]
    ELSE IF dict_has(cache, todo[1])
         THEN IF current_time - dict_get(cache, todo[1]).timestamp <= ttl
              THEN advance(Tail(todo), cache, current_time)
              ELSE [todo |-> todo, cache |-> dict_pop(cache, todo[1])]
    ELSE [todo |-> todo, cache |-> cache]

\* The cleanup goes on from the files `todo`: to the isfile of the next
\* file, or to the sleep(0) that ends the batch.
Continue(t, current_time, todo) ==
    LET next == advance(todo, content_cache, current_time)
    IN  /\ content_cache' = next.cache
        /\ tasks' = Replace(t, [t EXCEPT !.current_time = current_time,
                                         !.todo = next.todo,
                                         !.pc = IF Len(next.todo) = 0
                                                THEN "yield" ELSE "isfile"])

Orders(S) ==
    { s \in [1..Cardinality(S) -> S] : \A i, j \in 1..Cardinality(S) : i # j => s[i] # s[j] }

\* _cleanup_cache: os.listdir has answered, in some order.
CleanupListdir(t) ==
    /\ t.kind = "run_cleanup" /\ t.pc = "listdir"
    /\ \E all_files \in Orders({k \in Keys : files[k].exists}) :
          IF Len(all_files) = 0
          THEN /\ tasks' = tasks \ {t}
               /\ cleanup_lock' = FALSE
               /\ UNCHANGED content_cache
          ELSE /\ Continue(t, now, all_files)
               /\ UNCHANGED cleanup_lock
    /\ UNCHANGED <<routeVars, botVars, loadVars, utilVars, dispatchVars,
                   configVars, config_loaded, cache_enabled,
                   include_patterns, now, response_status, response_headers,
                   files, req, nreq, fresh, skipped>>

\* _cleanup_cache: os.path.isfile has answered for the file at hand.
CleanupIsfile(t) ==
    /\ t.kind = "run_cleanup" /\ t.pc = "isfile"
    /\ IF files[t.todo[1]].exists
       THEN /\ tasks' = Replace(t, [t EXCEPT !.pc = "stat"])
            /\ UNCHANGED content_cache
       ELSE Continue(t, t.current_time, Tail(t.todo))
    /\ UNCHANGED <<routeVars, botVars, loadVars, utilVars, dispatchVars,
                   configVars, config_loaded, cache_enabled,
                   include_patterns, now, response_status, response_headers,
                   files, cleanup_lock, req, nreq, fresh, skipped>>

\* _cleanup_cache: os.stat has answered; a file older than ttl * 1.1 by its
\* mtime is removed unread, another is read unless it is empty.
CleanupStat(t) ==
    /\ t.kind = "run_cleanup" /\ t.pc = "stat"
    /\ LET file == files[t.todo[1]]
       IN  IF file.exists /\ (t.current_time - file.mtime) * 10 > ttl * 11
           THEN /\ tasks' = Replace(t, [t EXCEPT !.pc = "remove"])
                /\ UNCHANGED content_cache
           ELSE IF file.exists /\ file.json
                THEN /\ tasks' = Replace(t, [t EXCEPT !.pc = "read"])
                     /\ UNCHANGED content_cache
           ELSE Continue(t, t.current_time, Tail(t.todo))
    /\ UNCHANGED <<routeVars, botVars, loadVars, utilVars, dispatchVars,
                   configVars, config_loaded, cache_enabled,
                   include_patterns, now, response_status, response_headers,
                   files, cleanup_lock, req, nreq, fresh, skipped>>

\* _cleanup_cache: the first bytes of the file are read and its timestamp
\* is compared with ttl.
CleanupRead(t) ==
    /\ t.kind = "run_cleanup" /\ t.pc = "read"
    /\ LET file == files[t.todo[1]]
       IN  IF file.exists /\ file.json /\ t.current_time - file.data.timestamp > ttl
           THEN /\ tasks' = Replace(t, [t EXCEPT !.pc = "remove"])
                /\ UNCHANGED content_cache
           ELSE Continue(t, t.current_time, Tail(t.todo))
    /\ UNCHANGED <<routeVars, botVars, loadVars, utilVars, dispatchVars,
                   configVars, config_loaded, cache_enabled,
                   include_patterns, now, response_status, response_headers,
                   files, cleanup_lock, req, nreq, fresh, skipped>>

\* _cleanup_cache: os.remove of the file at hand.
CleanupRemove(t) ==
    /\ t.kind = "run_cleanup" /\ t.pc = "remove"
    /\ files' = [files EXCEPT ![t.todo[1]] = NoFile]
    /\ LET next == advance(Tail(t.todo), content_cache, t.current_time)
       IN  /\ content_cache' = next.cache
           /\ tasks' = unlink(tasks \ {t}, t.todo[1]) \cup
                           {[t EXCEPT !.todo = next.todo,
                                      !.pc = IF Len(next.todo) = 0 THEN "yield" ELSE "isfile"]}
    /\ UNCHANGED <<routeVars, botVars, loadVars, utilVars, dispatchVars,
                   configVars, config_loaded, cache_enabled,
                   include_patterns, now, response_status, response_headers,
                   cleanup_lock, req, nreq, fresh, skipped>>

\* _cleanup_cache returns after the sleep(0) that ends its batch, and
\* _run_cleanup releases the lock.
CleanupYield(t) ==
    /\ t.kind = "run_cleanup" /\ t.pc = "yield"
    /\ tasks' = tasks \ {t}
    /\ cleanup_lock' = FALSE
    /\ UNCHANGED <<routeVars, botVars, loadVars, utilVars, dispatchVars,
                   configVars, config_loaded, cache_enabled,
                   include_patterns, now, response_status, response_headers,
                   content_cache, files, req, nreq, fresh, skipped>>

(***************************************************************************)
(* Loading the configuration.                                              *)
(***************************************************************************)
\* An endpoint of a configuration as written: `identifier` is its place in
\* the list given to the proxy.
LoadEndpoint(identifier, weight) == [identifier |-> identifier, weight |-> weight]

\* list.sort(key=lambda e: e.weight, reverse=True), a stable sort: an
\* element goes behind every element sorted so far that weighs as much or
\* more.
RECURSIVE insert_by_weight(_, _)
insert_by_weight(sorted, e) ==
    IF Len(sorted) = 0 THEN <<e>>
    ELSE IF sorted[1].weight >= e.weight
         THEN <<sorted[1]>> \o insert_by_weight(Tail(sorted), e)
    ELSE <<e>> \o sorted

RECURSIVE sort_by_weight(_, _)
sort_by_weight(sorted, endpoints) ==
    IF Len(endpoints) = 0 THEN sorted
    ELSE sort_by_weight(insert_by_weight(sorted, endpoints[1]), Tail(endpoints))

\* get_file_config: the endpoints of the Config it returns, None ("none")
\* when the file does not exist.
get_file_config(file) ==
    IF file.exists THEN [kind |-> "config", endpoints |-> sort_by_weight(<<>>, file.endpoints)]
    ELSE [kind |-> "none", endpoints |-> <<>>]

\* The endpoints of the "Default config" of ProxyCraft.__init__: one
\* endpoint, of the default weight.
DefaultEndpoints == <<LoadEndpoint(0, 100)>>

\* ProxyCraft.__init__: self.config.endpoints.  `source` is a config file
\* (which may not exist) or a Config object.
proxycraft_config(source, endpoints) ==
    LET config == IF source = "file" THEN get_file_config([exists |-> TRUE, endpoints |-> endpoints])
                  ELSE IF source = "missing_file"
                       THEN get_file_config([exists |-> FALSE, endpoints |-> <<>>])
                  ELSE [kind |-> "config", endpoints |-> endpoints]
    IN  IF config.kind = "none" THEN DefaultEndpoints ELSE config.endpoints

LoadIdle ==
    /\ load_source = "object"
    /\ load_given = <<>>
    /\ constructed = FALSE
    /\ config_endpoints = <<>>
    /\ load_handled = 0

\* ProxyCraft(config_file=...) or ProxyCraft(config=...).
Construct ==
    /\ ~constructed
    /\ constructed' = TRUE
    /\ config_endpoints' = proxycraft_config(load_source, load_given)
    /\ UNCHANGED <<load_source, load_given, load_handled, routeVars, botVars, pipeVars, utilVars,
                   dispatchVars>>

\* handle_request on the constructed proxy: find_endpoint scans
\* config.endpoints and the virtual dispatch builds a dict from it; neither
\* assigns to the list.
LoadHandleRequest(max_requests) ==
    /\ constructed
    /\ load_handled < max_requests
    /\ load_handled' = load_handled + 1
    /\ UNCHANGED <<load_source, load_given, constructed, config_endpoints, routeVars,
                   botVars, pipeVars, utilVars, dispatchVars>>

(***************************************************************************)
(* The dispatcher: upstream mode, backend handler, virtual endpoints.      *)
(***************************************************************************)
\* mock.default_response when it is None.
NoDefault == [kind |-> "none"]

\* Backends: the variants that are set and what the handlers read of them.
Backends(variants, methods, path_templates, default_response) ==
    [variants |-> variants, methods |-> methods, path_templates |-> path_templates,
     default_response |-> default_response]

NoBackends == Backends({}, {}, <<>>, NoDefault)

\* MockResponseTemplate(status_code, content_type, body).
Template(status_code, content_type, body) ==
    [kind |-> "template", status_code |-> status_code, content_type |-> content_type,
     body |-> body]

NoVirtual == [present |-> FALSE, enabled |-> FALSE, strategy |-> "", sources |-> <<>>]

\* VirtualSourceConfig(sources, enabled, strategy).
Virtual(sources, enabled, strategy) ==
    [present |-> TRUE, enabled |-> enabled, strategy |-> strategy, sources |-> sources]

\* Endpoint: `proxy` is "absent" (upstream.proxy is None), "enabled" or
\* "disabled"; `backends` is the list of Backends (a single Backends value
\* is the list of one element, None the empty Backends value).
DispatchEndpoint(identifier, prefix, match, proxy, virtual, backends) ==
    [identifier |-> identifier, prefix |-> prefix, match |-> match, proxy |-> proxy,
     virtual |-> virtual, backends |-> backends]

\* A response as the caller of handle_request reads it.
Response(status_code, content_type, body) ==
    [status_code |-> status_code, content_type |-> content_type, body |-> body]

NoResponse == Response(0, "", <<>>)

\* One call of handle_request and what it holds: the request, where the
\* coroutine stands, the endpoint found, the next source of the virtual
\* loop.  History: `mode` is the branch taken, `invoked` the backend
\* handlers whose handle_request was called, `upstream_calls` the requests
\* sent to an https upstream, `tried` the re-entered requests and their
\* results, `cycle` whether an endpoint was entered that was being served.
Frame(path, query, method) ==
    [pc |-> "route", path |-> path, query |-> query, method |-> method, endpoint |-> 0,
     mode |-> "", src |-> 1, invoked |-> <<>>, upstream_calls |-> 0, tried |-> <<>>,
     cycle |-> FALSE, response |-> NoResponse]

NoFrame == [Frame(<<>>, <<>>, "") EXCEPT !.pc = "none"]

\* `return Response(...)`.
returns(frame, response) == [frame EXCEPT !.pc = "done", !.response = response]

\* The `except Exception` of handle_request: status 500, body str(e).
raises(frame, message) == returns(frame, Response(500, "application/json", message))

NoValidHandler ==
    <<"N", "o", " ", "v", "a", "l", "i", "d", " ", "h", "a", "n", "d", "l", "e", "r", " ",
    "f", "o", "u", "n", "d", " ", "f", "o", "r", " ", "b", "a", "c", "k", "e", "n", "d">>

UnexpectedKeyword ==
    <<"F", "i", "l", "e", ".", "_", "_", "i", "n", "i", "t", "_", "_", "(", ")", " ", "g",
    "o", "t", " ", "a", "n", " ", "u", "n", "e", "x", "p", "e", "c", "t", "e", "d", " ",
    "k", "e", "y", "w", "o", "r", "d", " ", "a", "r", "g", "u", "m", "e", "n", "t", " ",
    "'", "c", "o", "n", "n", "e", "c", "t", "i", "o", "n", "_", "p", "o", "o", "l", "i",
    "n", "g", "'">>

NoneHasNoHeaders ==
    <<"'", "N", "o", "n", "e", "T", "y", "p", "e", "'", " ", "o", "b", "j", "e", "c", "t",
    " ", "h", "a", "s", " ", "n", "o", " ", "a", "t", "t", "r", "i", "b", "u", "t", "e",
    " ", "'", "h", "e", "a", "d", "e", "r", "s", "'">>

ListIndexOutOfRange ==
    <<"l", "i", "s", "t", " ", "i", "n", "d", "e", "x", " ", "o", "u", "t", " ", "o", "f",
    " ", "r", "a", "n", "g", "e">>

MaximumRecursionDepth ==
    <<"m", "a", "x", "i", "m", "u", "m", " ", "r", "e", "c", "u", "r", "s", "i", "o", "n",
    " ", "d", "e", "p", "t", "h", " ", "e", "x", "c", "e", "e", "d", "e", "d">>

\* str.removeprefix.
removeprefix(s, prefix) ==
    IF Len(s) >= Len(prefix) /\ SubSeq(s, 1, Len(prefix)) = prefix
    THEN SubSeq(s, Len(prefix) + 1, Len(s))
    ELSE s

\* ProxyHandlerFactory._handlers, in the order of the dict.
handlers == <<"command", "echo", "redirect", "mock", "https", "file", "scheduler">>

\* The loop of create_and_handle: the first handler, in the order of
\* _handlers, whose attribute is set on the backend ("" when none is).
RECURSIVE first_handler(_, _)
first_handler(backend, i) ==
    IF i > Len(handlers) THEN ""
    ELSE IF handlers[i] \in backend.variants THEN handlers[i]
    ELSE first_handler(backend, i + 1)

\* Mock._find_mock_response_template: the template of the first pattern of
\* path_templates that matches the path, else default_response.
RECURSIVE find_mock_response_template(_, _, _)
find_mock_response_template(backend, i, request_url_path) ==
    IF i > Len(backend.path_templates) THEN backend.default_response
    ELSE IF ant_match(backend.path_templates[i].pattern,
                      IF Len(request_url_path) > 0 /\ request_url_path[1] = "/"
                      THEN request_url_path ELSE <<"/">> \o request_url_path)
         THEN backend.path_templates[i].template
    ELSE find_mock_response_template(backend, i + 1, request_url_path)

\* Mock.handle_request.
mock_handle_request(frame, endpoint, backend) ==
    LET template == find_mock_response_template(
                        backend, 1, removeprefix(frame.path, endpoint.prefix))
    IN  IF template.kind = "none" THEN raises(frame, NoneHasNoHeaders)
        ELSE returns(frame, Response(template.status_code,
                                     with_charset(template.content_type), template.body))

\* Https.handle_request up to the upstream call: the method gate.
https_handle_request(frame, backend) ==
    IF frame.method \notin backend.methods THEN raises(frame, MethodNotSupported)
    ELSE [frame EXCEPT !.pc = "upstream", !.upstream_calls = @ + 1]

\* ProxyHandlerFactory.create_and_handle: every handler is constructed with
\* the keyword connection_pooling, which File.__init__ does not take.
create_and_handle(frame, endpoint, backend) ==
    LET attr_name == first_handler(backend, 1)
        invoked == [frame EXCEPT !.invoked = Append(@, attr_name)]
    IN  CASE attr_name = "" -> raises(frame, NoValidHandler)
          [] attr_name = "file" -> raises(frame, UnexpectedKeyword)
          [] attr_name = "mock" -> mock_handle_request(invoked, endpoint, backend)
          [] OTHER -> https_handle_request(invoked, backend)

\* handle_request with the branches exchanged: an enabled virtual mode is
\* looked at before the proxy mode.
dispatch_virtual_first(endpoints, frame) ==
    LET found == find_endpoint(Matches(endpoints), frame.path)
    IN  IF found.kind # "endpoint" THEN raises(frame, error_text(found, frame.path))
        ELSE LET endpoint == endpoints[found.index]
                 routed == [frame EXCEPT !.endpoint = found.index]
             IN  IF endpoint.virtual.present /\ endpoint.virtual.enabled
                      /\ endpoint.virtual.strategy = "first-match"
                 THEN [routed EXCEPT !.mode = "virtual", !.pc = "sources"]
                 ELSE IF endpoint.proxy = "enabled" /\ Len(endpoint.backends) > 0
                 THEN create_and_handle([routed EXCEPT !.mode = "proxy"], endpoint,
                                        endpoint.backends[1])
                 ELSE returns([routed EXCEPT !.mode = "none"],
                              Response(404, with_charset("text/plain"), NotFound))

\* handle_request from its entry to its first await or its return.
dispatch(endpoints, frame) ==
    LET found == find_endpoint(Matches(endpoints), frame.path)
    IN  IF found.kind # "endpoint" THEN raises(frame, error_text(found, frame.path))
        ELSE LET endpoint == endpoints[found.index]
                 routed == [frame EXCEPT !.endpoint = found.index]
             IN  IF endpoint.proxy = "enabled"
                 THEN IF Len(endpoint.backends) = 0
                      THEN raises([routed EXCEPT !.mode = "proxy"], ListIndexOutOfRange)
                      ELSE create_and_handle([routed EXCEPT !.mode = "proxy"], endpoint,
                                             endpoint.backends[1])
                 ELSE IF endpoint.virtual.present /\ endpoint.virtual.enabled
                           /\ endpoint.virtual.strategy = "first-match"
                 THEN [routed EXCEPT !.mode = "virtual", !.pc = "sources"]
                 ELSE returns([routed EXCEPT !.mode = "none"],
                              Response(404, with_charset("text/plain"), NotFound))

\* endpoints_by_identifier[source]: of the endpoints with this identifier,
\* the last one (0 is the KeyError).
endpoints_by_identifier(endpoints, source) ==
    LET having == {i \in 1..Len(endpoints) : endpoints[i].identifier = source}
    IN  IF having = {} THEN 0 ELSE CHOOSE i \in having : \A j \in having : j <= i

\* The url of the request re-entered for a source: the source's prefix and
\* the resource path, or, when the request has a query string, the
\* request's own path and query.
source_url(frame, endpoint, source_endpoint) ==
    IF Len(frame.query) > 0
    THEN [path |-> frame.path, query |-> frame.query]
    ELSE [path |-> source_endpoint.prefix \o removeprefix(frame.path, endpoint.prefix),
          query |-> <<>>]

\* One re-entered request of the virtual loop and, once it has returned,
\* its result: the endpoint that served it and its status.
Tried(source, url) ==
    [source |-> source, path |-> url.path, query |-> url.query, served_by |-> 0,
     status_code |-> 0, content_type |-> "", body |-> <<>>]

\* response.headers.get("content-type"), "" when there is none.
RECURSIVE content_type_of(_)
content_type_of(headers) ==
    IF Len(headers) = 0 THEN ""
    ELSE IF headers[1].name = "content-type" THEN headers[1].text
    ELSE content_type_of(Tail(headers))

\* The response that the messages of a starlette Response make.
read_response(messages) ==
    Response(messages[1].status, content_type_of(messages[1].headers), messages[2].body)

\* r.headers["content-type"] or "application/text".
media_type_of(r) == IF r.content_type = "" THEN "application/text" ELSE r.content_type

DispatchIdle == stack = <<>> /\ answer = NoFrame /\ served = 0

top == stack[Len(stack)]

set_top(frame) == [stack EXCEPT ![Len(stack)] = frame]

\* A client sends a request: the outermost handle_request is entered.
DispatchReceive(requests, max_requests) ==
    /\ stack = <<>>
    /\ served < max_requests
    /\ \E request \in requests :
         stack' = <<Frame(request.path, request.query, request.method)>>
    /\ served' = served + 1
    /\ answer' = NoFrame
    /\ UNCHANGED <<routeVars, botVars, pipeVars, loadVars, utilVars>>

\* handle_request runs to its first await or to its return.
DispatchHandle(endpoints) ==
    /\ stack # <<>>
    /\ top.pc = "route"
    /\ LET handled == dispatch(endpoints, top)
           serving == {stack[i].endpoint : i \in 1..(Len(stack) - 1)}
       IN  stack' = set_top([handled EXCEPT
                                !.cycle = handled.endpoint # 0 /\ handled.endpoint \in serving])
    /\ UNCHANGED <<routeVars, botVars, pipeVars, loadVars, utilVars, answer, served>>

\* The https upstream answers; the handler returns its response.
DispatchUpstream(replies) ==
    /\ stack # <<>>
    /\ top.pc = "upstream"
    /\ \E reply \in replies :
         stack' = set_top(returns(top, read_response(https_response(reply))))
    /\ UNCHANGED <<routeVars, botVars, pipeVars, loadVars, utilVars, answer, served>>

\* The virtual loop takes its next source and re-enters the application
\* with the request for it: a new handle_request below this one.
DispatchReenter(endpoints, recursion_limit) ==
    /\ stack # <<>>
    /\ top.pc = "sources"
    /\ LET endpoint == endpoints[top.endpoint]
       IN  /\ top.src <= Len(endpoint.virtual.sources)
           /\ endpoints_by_identifier(endpoints, endpoint.virtual.sources[top.src]) # 0
           /\ Len(stack) < recursion_limit
           /\ LET source == endpoint.virtual.sources[top.src]
                  url == source_url(top, endpoint,
                                    endpoints[endpoints_by_identifier(endpoints, source)])
              IN  stack' = Append(set_top([top EXCEPT !.pc = "waiting",
                                                      !.tried = Append(@, Tried(source, url))]),
                                  Frame(url.path, url.query, top.method))
    /\ UNCHANGED <<routeVars, botVars, pipeVars, loadVars, utilVars, answer, served>>

\* The source's identifier names no endpoint: the KeyError is the 500 of
\* this handle_request.
DispatchKeyError(endpoints) ==
    /\ stack # <<>>
    /\ top.pc = "sources"
    /\ LET endpoint == endpoints[top.endpoint]
       IN  /\ top.src <= Len(endpoint.virtual.sources)
           /\ endpoints_by_identifier(endpoints, endpoint.virtual.sources[top.src]) = 0
           /\ stack' = set_top(raises(top, <<"'", endpoint.virtual.sources[top.src], "'">>))
    /\ UNCHANGED <<routeVars, botVars, pipeVars, loadVars, utilVars, answer, served>>

\* The calls are as deep as the interpreter allows: the re-entry raises
\* RecursionError, which is the 500 of this handle_request.
DispatchRecursionError(endpoints, recursion_limit) ==
    /\ stack # <<>>
    /\ top.pc = "sources"
    /\ LET endpoint == endpoints[top.endpoint]
       IN  /\ top.src <= Len(endpoint.virtual.sources)
           /\ endpoints_by_identifier(endpoints, endpoint.virtual.sources[top.src]) # 0
           /\ Len(stack) >= recursion_limit
           /\ stack' = set_top(raises(top, MaximumRecursionDepth))
    /\ UNCHANGED <<routeVars, botVars, pipeVars, loadVars, utilVars, answer, served>>

\* Every source was tried and none answered 200: 404.
DispatchExhausted(endpoints) ==
    /\ stack # <<>>
    /\ top.pc = "sources"
    /\ top.src > Len(endpoints[top.endpoint].virtual.sources)
    /\ stack' = set_top(returns(top, Response(404, with_charset("text/plain"), NotFound)))
    /\ UNCHANGED <<routeVars, botVars, pipeVars, loadVars, utilVars, answer, served>>

\* A re-entered request returns to the virtual loop that sent it: status
\* 200 is the loop's response, any other status the next source's turn.
DispatchReturn ==
    /\ Len(stack) >= 2
    /\ top.pc = "done"
    /\ LET r == top.response
           waiting == stack[Len(stack) - 1]
           tried == [waiting.tried EXCEPT ![Len(waiting.tried)].status_code = r.status_code,
                                          ![Len(waiting.tried)].content_type = r.content_type,
                                          ![Len(waiting.tried)].body = r.body,
                                          ![Len(waiting.tried)].served_by = top.endpoint]
           resumed == [waiting EXCEPT !.tried = tried, !.cycle = @ \/ top.cycle]
       IN  stack' = Append(SubSeq(stack, 1, Len(stack) - 2),
                           IF r.status_code # 200
                           THEN [resumed EXCEPT !.pc = "sources", !.src = @ + 1]
                           ELSE returns(resumed, Response(r.status_code, media_type_of(r),
                                                          r.body)))
    /\ UNCHANGED <<routeVars, botVars, pipeVars, loadVars, utilVars, answer, served>>

\* The outermost handle_request returns: the client has its response.
DispatchDeliver ==
    /\ Len(stack) = 1
    /\ top.pc = "done"
    /\ answer' = top
    /\ stack' = <<>>
    /\ UNCHANGED <<routeVars, botVars, pipeVars, loadVars, utilVars, served>>

(***************************************************************************)
(* The target URL of an https backend.                                     *)
(***************************************************************************)
\* str.rstrip(c) and str.strip(c) for one character c.
RECURSIVE rstrip(_, _)
rstrip(s, c) == IF Len(s) > 0 /\ s[Len(s)] = c THEN rstrip(SubSeq(s, 1, Len(s) - 1), c) ELSE s

RECURSIVE lstrip(_, _)
lstrip(s, c) == IF Len(s) > 0 /\ s[1] = c THEN lstrip(Tail(s), c) ELSE s

strip(s, c) == rstrip(lstrip(s, c), c)

\* An optional str argument: None, or a string.
None == [is_none |-> TRUE, text |-> <<>>]

Str(text) == [is_none |-> FALSE, text |-> text]

\* Https._forge_target_url.
forge_target_url(url, path, prefix, query) ==
    LET joined == IF endswith(url, "$") THEN rstrip(url, "$")
                  ELSE url \o <<"/">> \o strip(removeprefix(path, prefix), "/")
        stripped == strip(joined, "/")
    IN  IF query.is_none THEN stripped ELSE stripped \o <<"?">> \o query.text

\* The arguments of one call made by Https.handle_request.
ForgeRequest(url, prefix, path, query) ==
    [url |-> url, prefix |-> prefix, path |-> path, query |-> query]

ForgeIdle ==
    /\ forge_request = ForgeRequest(<<>>, <<>>, <<>>, <<>>)
    /\ forge_pc = "idle"
    /\ target_url = <<>>

\* Https.handle_request forges the target of the request: it passes
\* request.url.query, which is the empty string for a request without a
\* query string.
ForgeTargetUrl ==
    /\ forge_pc = "called"
    /\ forge_pc' = "returned"
    /\ target_url' = forge_target_url(forge_request.url, forge_request.path,
                                      forge_request.prefix, Str(forge_request.query))
    /\ UNCHANGED <<routeVars, botVars, pipeVars, loadVars, dispatchVars, forge_request,
                   otherThanForge>>

\* The next request arrives at the handler.
ForgeNextRequest(requests) ==
    /\ forge_pc \in {"idle", "returned"}
    /\ forge_pc' = "called"
    /\ forge_request' \in requests
    /\ target_url' = <<>>
    /\ UNCHANGED <<routeVars, botVars, pipeVars, loadVars, dispatchVars, otherThanForge>>

(***************************************************************************)
(* EventLoopConnectorManager and SafeConnectorSingleton.                   *)
(***************************************************************************)
\* The two global managers: event_loop_manager, and the one the singleton
\* safe_singleton creates in __new__ and delegates to.
Managers == {"event_loop_manager", "safe_singleton"}

NoLoop == 0
NoConnector == 0

\* self._connectors = {}.
NoConnectors(addresses) == [a \in addresses |-> NoConnector]

\* The body of get_connector under its lock: a TCPConnector is created and
\* stored under loop_id unless the dict has that key; the dict's entry is
\* returned.
get_connector(registry, loop_id, created) ==
    IF registry[loop_id] = NoConnector
    THEN [registry EXCEPT ![loop_id] = created]
    ELSE registry

ConnIdle(addresses) ==
    /\ loops = [a \in addresses |-> NoLoop]
    /\ connectors = [m \in Managers |-> NoConnectors(addresses)]
    /\ handed = {}
    /\ next_loop = 0
    /\ next_connector = 0

\* asyncio.new_event_loop(): the object is allocated at an address that no
\* living object has; id(loop) is that address.
NewLoop(a, max_loops) ==
    /\ loops[a] = NoLoop
    /\ next_loop < max_loops
    /\ next_loop' = next_loop + 1
    /\ loops' = [loops EXCEPT ![a] = next_loop + 1]
    /\ UNCHANGED <<routeVars, botVars, pipeVars, loadVars, dispatchVars, otherThanConn,
                   connectors, handed, next_connector>>

\* loop.close() and the end of the last reference to the loop: the manager
\* keeps none, its dict holds the integer id(loop).
CloseLoop(a) ==
    /\ loops[a] # NoLoop
    /\ loops' = [loops EXCEPT ![a] = NoLoop]
    /\ UNCHANGED <<routeVars, botVars, pipeVars, loadVars, dispatchVars, otherThanConn,
                   connectors, handed, next_loop, next_connector>>

\* manager.get_connector() called from the loop that runs at address a.
GetConnector(m, a, max_connectors) ==
    /\ loops[a] # NoLoop
    /\ connectors[m][a] = NoConnector => next_connector < max_connectors
    /\ LET registry == get_connector(connectors[m], a, next_connector + 1)
       IN  /\ connectors' = [connectors EXCEPT ![m] = registry]
           /\ next_connector' = IF connectors[m][a] = NoConnector
                                THEN next_connector + 1 ELSE next_connector
           /\ handed' = handed \cup {[manager |-> m, loop |-> loops[a],
                                      connector |-> registry[a]]}
    /\ UNCHANGED <<routeVars, botVars, pipeVars, loadVars, dispatchVars, otherThanConn,
                   loops, next_loop>>

\* cleanup_all: every connector is closed and the dict is cleared.
CleanupAll(m) ==
    /\ connectors' = [connectors EXCEPT ![m] = NoConnectors(DOMAIN loops)]
    /\ UNCHANGED <<routeVars, botVars, pipeVars, loadVars, dispatchVars, otherThanConn,
                   loops, handed, next_loop, next_connector>>

(***************************************************************************)
(* download_text_file.                                                     *)
(***************************************************************************)
\* What a path names: nothing, a regular file with its bytes, a directory,
\* a fifo, or a symbolic link to one of the first three.
Entry(kind, target, content) == [kind |-> kind, target |-> target, content |-> content]

NoEntry == Entry("missing", "missing", <<>>)

\* Path.exists(): symbolic links are followed.
path_exists(entry) ==
    IF entry.kind = "symlink" THEN entry.target # "missing" ELSE entry.kind # "missing"

\* Path.is_file() with its default follow_symlinks=True.
is_file_followed(entry) ==
    IF entry.kind = "symlink" THEN entry.target = "file" ELSE entry.kind = "file"

\* Path.is_file(follow_symlinks=False).
is_file(entry) == entry.kind = "file"

\* str.encode("utf-8") of one character: "E" stands for a two-byte one.
encode_char(c) == IF c = "E" THEN <<"c3", "a9">> ELSE <<c>>

\* str.encode("utf-8").
RECURSIVE utf8_encode(_)
utf8_encode(text) ==
    IF Len(text) = 0 THEN <<>> ELSE encode_char(text[1]) \o utf8_encode(Tail(text))

\* bytes.decode("utf-8") of valid UTF-8.
RECURSIVE utf8_decode(_)
utf8_decode(bytes) ==
    IF Len(bytes) = 0 THEN <<>>
    ELSE IF bytes[1] = "c3" THEN <<"E">> \o utf8_decode(Tail(Tail(bytes)))
    ELSE <<bytes[1]>> \o utf8_decode(Tail(bytes))

\* The universal newlines of a file opened in text mode with newline=None:
\* "\r\n" and "\r" are read as "\n".
RECURSIVE universal_newlines(_)
universal_newlines(text) ==
    IF Len(text) = 0 THEN <<>>
    ELSE IF text[1] = "CR"
         THEN <<"LF">> \o universal_newlines(IF Len(text) > 1 /\ text[2] = "LF"
                                             THEN Tail(Tail(text)) ELSE Tail(text))
    ELSE <<text[1]>> \o universal_newlines(Tail(text))

\* io.open(path, "r", encoding="utf-8", buffering=8192): a text file whose
\* read(n) returns up to n characters.
io_open(entry) == [opened |-> TRUE, text |-> universal_newlines(utf8_decode(entry.content))]

Closed == [opened |-> FALSE, text |-> <<>>]

\* file.read(n) and what is left to read.
file_read(file, n) ==
    LET k == IF Len(file.text) < n THEN Len(file.text) ELSE n
    IN  [chunk |-> SubSeq(file.text, 1, k),
         file |-> [file EXCEPT !.text = SubSeq(file.text, k + 1, Len(file.text))]]

NoDownload == [kind |-> "none", status_code |-> 0, media_type |-> "", body |-> <<>>]

\* download_text_file(path).
download_text_file(entry) ==
    IF ~path_exists(entry) \/ ~is_file(entry)
    THEN [kind |-> "Response", status_code |-> 404, media_type |-> "text/plain",
          body |-> NotFound]
    ELSE [kind |-> "StreamingResponse", status_code |-> 200,
          media_type |-> "text/plain; charset=utf-8", body |-> <<>>]

DownloadIdle ==
    /\ download_path = NoEntry
    /\ download_pc = "idle"
    /\ download_response = NoDownload
    /\ streamer_file = Closed
    /\ streamed = <<>>

\* A caller has a path to download.
DownloadNextPath(entries) ==
    /\ download_pc \in {"idle", "returned", "exhausted"}
    /\ download_path' \in entries
    /\ download_pc' = "called"
    /\ download_response' = NoDownload
    /\ streamer_file' = Closed
    /\ streamed' = <<>>
    /\ UNCHANGED <<routeVars, botVars, pipeVars, loadVars, dispatchVars, otherThanDownload>>

\* The call of download_text_file returns.
DownloadTextFile ==
    /\ download_pc = "called"
    /\ download_response' = download_text_file(download_path)
    /\ download_pc' = IF download_response'.kind = "Response" THEN "returned" ELSE "streaming"
    /\ UNCHANGED <<routeVars, botVars, pipeVars, loadVars, dispatchVars, otherThanDownload,
                   download_path, streamer_file, streamed>>

\* The next step of text_file_streamer(), which opens the file in its
\* first: it yields the chunk it read, or ends when the read is empty.
TextFileStreamer(chunk_size) ==
    /\ download_pc = "streaming"
    /\ LET file == IF streamer_file.opened THEN streamer_file ELSE io_open(download_path)
           read == file_read(file, chunk_size)
       IN  IF Len(read.chunk) > 0
           THEN /\ streamed' = Append(streamed, utf8_encode(read.chunk))
                /\ streamer_file' = read.file
                /\ download_pc' = download_pc
           ELSE /\ streamed' = streamed
                /\ streamer_file' = Closed
                /\ download_pc' = "exhausted"
    /\ UNCHANGED <<routeVars, botVars, pipeVars, loadVars, dispatchVars, otherThanDownload,
                   download_path, download_response>>

(***************************************************************************)
(* CronJob.validate_cron_schedule.                                         *)
(***************************************************************************)
DigitChars == {"0", "1", "2", "3", "4", "5", "6", "7", "8", "9"}

Star == <<"*">>

\* (\*|([0-5]?\d))
minute_pattern(f) ==
    \/ f = Star
    \/ Len(f) = 1 /\ f[1] \in DigitChars
    \/ Len(f) = 2 /\ f[1] \in {"0", "1", "2", "3", "4", "5"} /\ f[2] \in DigitChars

\* (\*|([01]?\d|2[0-3]))
hour_pattern(f) ==
    \/ f = Star
    \/ Len(f) = 1 /\ f[1] \in DigitChars
    \/ Len(f) = 2 /\ f[1] \in {"0", "1"} /\ f[2] \in DigitChars
    \/ Len(f) = 2 /\ f[1] = "2" /\ f[2] \in {"0", "1", "2", "3"}

\* (\*|([12]?\d|3[01]))
day_pattern(f) ==
    \/ f = Star
    \/ Len(f) = 1 /\ f[1] \in DigitChars
    \/ Len(f) = 2 /\ f[1] \in {"1", "2"} /\ f[2] \in DigitChars
    \/ Len(f) = 2 /\ f[1] = "3" /\ f[2] \in {"0", "1"}

\* (\*|([1-9]|1[0-2]))
month_pattern(f) ==
    \/ f = Star
    \/ Len(f) = 1 /\ f[1] \in DigitChars \ {"0"}
    \/ Len(f) = 2 /\ f[1] = "1" /\ f[2] \in {"0", "1", "2"}

\* (\*|[0-6])
weekday_pattern(f) ==
    \/ f = Star
    \/ Len(f) = 1 /\ f[1] \in {"0", "1", "2", "3", "4", "5", "6"}

\* The pieces of s between the occurrences of sep.
RECURSIVE split_at(_, _, _)
split_at(s, sep, piece) ==
    IF Len(s) = 0 THEN <<piece>>
    ELSE IF s[1] = sep THEN <<piece>> \o split_at(Tail(s), sep, <<>>)
    ELSE split_at(Tail(s), sep, Append(piece, s[1]))

\* re.match(cron_pattern, v): the five groups are separated by one space
\* each and match no space, and "$" matches at the end of the string and
\* before a newline that ends it.
re_match_cron_pattern(v) ==
    LET body == IF Len(v) > 0 /\ v[Len(v)] = "LF" THEN SubSeq(v, 1, Len(v) - 1) ELSE v
        f == split_at(body, " ", <<>>)
    IN  /\ Len(f) = 5
        /\ minute_pattern(f[1])
        /\ hour_pattern(f[2])
        /\ day_pattern(f[3])
        /\ month_pattern(f[4])
        /\ weekday_pattern(f[5])

\* validate_cron_schedule(v): the schedule is returned or ValueError raised.
validate_cron_schedule(v) == IF re_match_cron_pattern(v) THEN "accepted" ELSE "rejected"

CronIdle ==
    /\ cron_schedule = <<>>
    /\ cron_pc = "idle"

\* CronJob(schedule=..., ...) is called.
CronNextSchedule(schedules) ==
    /\ cron_pc = "idle"
    /\ cron_schedule' \in schedules
    /\ cron_pc' = "given"
    /\ UNCHANGED <<routeVars, botVars, pipeVars, loadVars, dispatchVars, otherThanCron>>

\* pydantic runs the field validator.
ValidateCronSchedule ==
    /\ cron_pc = "given"
    /\ cron_pc' = validate_cron_schedule(cron_schedule)
    /\ UNCHANGED <<routeVars, botVars, pipeVars, loadVars, dispatchVars, otherThanCron,
                   cron_schedule>>

(***************************************************************************)
(* The command backend: Command.handle_request and the generator           *)
(* stream_output of the StreamingResponse it returns.                      *)
(***************************************************************************)
\* Command.timeout (10 seconds in the source), scaled.
timeout == 2

CommandIdle ==
    /\ command_pc = "idle"
    /\ command_status = 0
    /\ process = "none"
    /\ pty_data = 0
    /\ written = 0
    /\ yielded = 0
    /\ elapsed = 0

\* What handle_request returns: the JSONResponse of `except Exception` when
\* the request body is no JSON, else the StreamingResponse, whose generator
\* has not run yet.
handle_request_returns(body_is_json) ==
    IF body_is_json THEN [pc |-> "spawn", status |-> 200]
    ELSE [pc |-> "returned", status |-> 500]

\* Command.handle_request, up to its return.
CommandHandleRequest(body_is_json) ==
    /\ command_pc = "idle"
    /\ command_pc' = handle_request_returns(body_is_json).pc
    /\ command_status' = handle_request_returns(body_is_json).status
    /\ UNCHANGED <<routeVars, botVars, pipeVars, loadVars, dispatchVars, otherThanCommand,
                   process, pty_data, written, yielded, elapsed>>

\* stream_output: pty.openpty and asyncio.create_subprocess_exec.
StreamSpawn ==
    /\ command_pc = "spawn"
    /\ process' = "running"
    /\ command_pc' = "reading"
    /\ UNCHANGED <<routeVars, botVars, pipeVars, loadVars, dispatchVars, otherThanCommand,
                   command_status, pty_data, written, yielded, elapsed>>

\* stream_output, the passes of `while True` up to the next one that finds
\* something: os.read yields a chunk, or nothing is left to read and the
\* subprocess has exited.  Until then the loop sleeps 0.05 s and looks again.
StreamRead ==
    /\ command_pc = "reading"
    /\ pty_data > 0 \/ process = "exited"
    /\ IF pty_data > 0
       THEN /\ pty_data' = pty_data - 1
            /\ yielded' = yielded + 1
            /\ UNCHANGED command_pc
       ELSE /\ command_pc' = "draining"
            /\ UNCHANGED <<pty_data, yielded>>
    /\ UNCHANGED <<routeVars, botVars, pipeVars, loadVars, dispatchVars, otherThanCommand,
                   command_status, process, written, elapsed>>

\* stream_output, "Drain remaining output" and the close of the master.
StreamDrain ==
    /\ command_pc = "draining"
    /\ IF pty_data > 0
       THEN /\ pty_data' = pty_data - 1
            /\ yielded' = yielded + 1
            /\ UNCHANGED command_pc
       ELSE /\ command_pc' = "waiting"
            /\ UNCHANGED <<pty_data, yielded>>
    /\ UNCHANGED <<routeVars, botVars, pipeVars, loadVars, dispatchVars, otherThanCommand,
                   command_status, process, written, elapsed>>

\* stream_output: process.wait() returns and the exit line is yielded.
StreamWait ==
    /\ command_pc = "waiting"
    /\ process = "exited"
    /\ command_pc' = "done"
    /\ UNCHANGED <<routeVars, botVars, pipeVars, loadVars, dispatchVars, otherThanCommand,
                   command_status, process, pty_data, written, yielded, elapsed>>

\* The subprocess writes to its terminal.
ProcessWrites(max_output) ==
    /\ process = "running"
    /\ written < max_output
    /\ pty_data' = pty_data + 1
    /\ written' = written + 1
    /\ UNCHANGED <<routeVars, botVars, pipeVars, loadVars, dispatchVars, otherThanCommand,
                   command_pc, command_status, process, yielded, elapsed>>

\* The subprocess exits.
ProcessExits ==
    /\ process = "running"
    /\ process' = "exited"
    /\ UNCHANGED <<routeVars, botVars, pipeVars, loadVars, dispatchVars, otherThanCommand,
                   command_pc, command_status, pty_data, written, yielded, elapsed>>

\* Time passes while the subprocess runs.
ProcessRuns(max_time) ==
    /\ process = "running"
    /\ elapsed < max_time
    /\ elapsed' = elapsed + 1
    /\ UNCHANGED <<routeVars, botVars, pipeVars, loadVars, dispatchVars, otherThanCommand,
                   command_pc, command_status, process, pty_data, written, yielded>>

(***************************************************************************)
(* JWTAuth: the token get_headers puts in the Authorization header.        *)
(***************************************************************************)
\* token_expire_minutes (30 minutes in the source) and the buffer_time of
\* _is_token_valid (30 seconds), scaled to one unit of time.
token_expire == 5
buffer_time == 2

\* None.
NoToken == [exp |-> 0 - 1, iat |-> 0 - 1]
NoExpiry == 0 - 1

\* jwt.encode(payload, ...): the token is written as the claims it carries.
jwt_encode(exp, iat) == [exp |-> exp, iat |-> iat]

\* _is_token_valid without its buffer.
is_token_valid_unbuffered(token, expiry, at) ==
    IF token = NoToken \/ expiry = NoExpiry THEN FALSE
    ELSE at < expiry

\* JWTAuth._is_token_valid.
is_token_valid(token, expiry, at) ==
    IF token = NoToken \/ expiry = NoExpiry THEN FALSE
    ELSE at < expiry - buffer_time

JwtIdle ==
    /\ utcnow = 0
    /\ cached_token = NoToken
    /\ token_expiry = NoExpiry
    /\ authorization = NoToken
    /\ jwt_calls = 0
    /\ generated = 0

\* JWTAuth.get_headers, with _generate_token when the cached token is not
\* valid.
JwtGetHeaders(max_calls) ==
    /\ jwt_calls < max_calls
    /\ jwt_calls' = jwt_calls + 1
    /\ IF is_token_valid(cached_token, token_expiry, utcnow)
       THEN /\ authorization' = cached_token
            /\ UNCHANGED <<cached_token, token_expiry, generated>>
       ELSE /\ token_expiry' = utcnow + token_expire
            /\ cached_token' = jwt_encode(utcnow + token_expire, utcnow)
            /\ authorization' = jwt_encode(utcnow + token_expire, utcnow)
            /\ generated' = generated + 1
    /\ UNCHANGED <<routeVars, botVars, pipeVars, loadVars, dispatchVars, otherThanJwt, utcnow>>

\* Time passes between two calls.
JwtTick(max_time) ==
    /\ utcnow < max_time
    /\ utcnow' = utcnow + 1
    /\ UNCHANGED <<routeVars, botVars, pipeVars, loadVars, dispatchVars, otherThanJwt,
                   cached_token, token_expiry, authorization, jwt_calls, generated>>

(***************************************************************************)
(* CircuitBreakingMiddleware.                                              *)
(***************************************************************************)
\* reset_interval (60 seconds in the source), the default failure_threshold
\* (5), the default response_time_threshold (2.0 seconds) and the number of
\* response times kept per path (10), scaled.
reset_interval == 2
failure_threshold == 2
response_time_threshold == 1
response_times_kept == 2

\* The paths of the requests, after lstrip("/"): an ordinary one, one that
\* resource_filter.skip_paths matches and one that exclude_paths matches.
BreakerPaths == { "a", "s", "e" }
BreakerSkipPaths == { "s" }
BreakerExcludePaths == { "e" }

\* __init__ assigns self.app, self.config, self.antpathmatcher and
\* self.exclude_paths: the object has no attribute `proxycraft`.
has_proxycraft == FALSE

RECURSIVE Sum(_)
Sum(s) == IF Len(s) = 0 THEN 0 ELSE s[1] + Sum(Tail(s))

\* CircuitBreakingMiddleware._is_circuit_open with the default thresholds:
\* its first statement reads self.proxycraft.config.
is_circuit_open(counts, times, path) ==
    IF ~has_proxycraft THEN "AttributeError"
    ELSE IF counts[path] >= failure_threshold THEN "open"
    ELSE IF Len(times[path]) > 0
            /\ Sum(times[path]) > response_time_threshold * Len(times[path])
    THEN "open"
    ELSE "closed"

\* _record_failure.
record_failure(counts, path) == [counts EXCEPT ![path] = @ + 1]

\* _record_response_time.
record_response_time(times, path, response_time) ==
    [times EXCEPT ![path] =
         Append(IF Len(@) >= response_times_kept THEN Tail(@) ELSE @, response_time)]

BreakerIdle(enabled) ==
    /\ breaker_enabled = enabled
    /\ breaker_now = 0
    /\ failure_counts = [p \in BreakerPaths |-> 0]
    /\ response_times = [p \in BreakerPaths |-> <<>>]
    /\ last_reset_time = 0
    /\ breaker_path = ""
    /\ breaker_answer = "none"
    /\ app_calls = 0
    /\ breaker_calls = 0

\* `current_time - self.last_reset_time > self.reset_interval`.
ResetDue == breaker_now - last_reset_time > reset_interval

\* CircuitBreakingMiddleware.__call__ for a request to `path` that the inner
\* app, when it is reached, answers with `status` after `response_time`.
BreakerCall(path, status, response_time, max_calls) ==
    /\ breaker_calls < max_calls
    /\ breaker_calls' = breaker_calls + 1
    /\ breaker_path' = path
    /\ LET counts == IF ResetDue THEN [p \in BreakerPaths |-> 0] ELSE failure_counts
           times == IF ResetDue THEN [p \in BreakerPaths |-> <<>>] ELSE response_times
       IN  /\ last_reset_time' = IF ResetDue THEN breaker_now ELSE last_reset_time
           /\ IF breaker_enabled /\ path \in BreakerSkipPaths
              THEN /\ breaker_answer' = "204"
                   /\ failure_counts' = counts
                   /\ response_times' = times
                   /\ UNCHANGED app_calls
              ELSE IF breaker_enabled /\ path \in BreakerExcludePaths
              THEN /\ breaker_answer' = status
                   /\ app_calls' = app_calls + 1
                   /\ failure_counts' = counts
                   /\ response_times' = times
              ELSE IF breaker_enabled /\ is_circuit_open(counts, times, path) # "closed"
              THEN /\ breaker_answer' =
                          IF is_circuit_open(counts, times, path) = "open" THEN "503"
                          ELSE "raised"
                   /\ failure_counts' = counts
                   /\ response_times' = times
                   /\ UNCHANGED app_calls
              ELSE /\ breaker_answer' = status
                   /\ app_calls' = app_calls + 1
                   /\ failure_counts' = IF status \in { "500", "502" }
                                        THEN record_failure(counts, path) ELSE counts
                   /\ response_times' = record_response_time(times, path, response_time)
    /\ UNCHANGED <<routeVars, botVars, pipeVars, loadVars, dispatchVars, otherThanBreaker,
                   breaker_enabled, breaker_now>>

\* Time passes between two requests.
BreakerTick(max_time) ==
    /\ breaker_now < max_time
    /\ breaker_now' = breaker_now + 1
    /\ UNCHANGED <<routeVars, botVars, pipeVars, loadVars, dispatchVars, otherThanBreaker,
                   breaker_enabled, failure_counts, response_times, last_reset_time,
                   breaker_path, breaker_answer, app_calls, breaker_calls>>

(***************************************************************************)
(* EventLoopConnectorManager: get_connector and cleanup_all with the       *)
(* manager's threading.Lock.  Each event loop runs in a thread of its own; *)
(* the tasks of one loop run one at a time, another one only while the     *)
(* running one is suspended in an await.                                   *)
(***************************************************************************)
LockIdle ==
    /\ manager_lock = "free"
    /\ cleanup_pc = "idle"
    /\ cleanup_loop = NoLoop
    /\ remaining = {}
    /\ held_connectors = {}
    /\ closed = {}
    /\ blocked = {}
    /\ waited = {}
    /\ suspensions = 0

\* The thread of the loop at address a can run a task that is not
\* cleanup_all: it is not waiting for the lock, and cleanup_all, when it
\* runs on this loop, is suspended or over.
CanRunTask(a) ==
    /\ loops[a] # NoLoop
    /\ a \notin blocked
    /\ cleanup_loop = a => cleanup_pc \in {"idle", "closing", "returned"}

\* event_loop_manager.get_connector() called by a task of the loop at
\* address a: `with self._lock` takes the lock when it is free and makes the
\* calling thread wait when it is held.
LockedGetConnector(a, max_connectors) ==
    /\ CanRunTask(a)
    /\ IF manager_lock = "free"
       THEN GetConnector("event_loop_manager", a, max_connectors)
       ELSE /\ blocked' = blocked \cup {a}
            /\ waited' = waited \cup {a}
            /\ UNCHANGED <<routeVars, botVars, pipeVars, loadVars, dispatchVars, otherThanLock,
                           connVars, manager_lock, cleanup_pc, cleanup_loop, remaining,
                           held_connectors, closed, suspensions>>

\* The lock was released: a thread that waited for it takes it and goes on
\* with get_connector.
LockAcquired(a, max_connectors) ==
    /\ a \in blocked
    /\ manager_lock = "free"
    /\ connectors["event_loop_manager"][a] = NoConnector => next_connector < max_connectors
    /\ blocked' = blocked \ {a}
    /\ LET registry == get_connector(connectors["event_loop_manager"], a, next_connector + 1)
       IN  /\ connectors' = [connectors EXCEPT !["event_loop_manager"] = registry]
           /\ next_connector' = IF connectors["event_loop_manager"][a] = NoConnector
                                THEN next_connector + 1 ELSE next_connector
           /\ handed' = handed \cup {[manager |-> "event_loop_manager", loop |-> loops[a],
                                      connector |-> registry[a]]}
    /\ UNCHANGED <<routeVars, botVars, pipeVars, loadVars, dispatchVars, otherThanLock,
                   loops, next_loop, manager_lock, cleanup_pc, cleanup_loop, remaining,
                   held_connectors, closed, waited, suspensions>>

\* cleanup_all is called on the loop at address a (the lifespan's shutdown)
\* and enters `with self._lock`.
CleanupAllEnter(a) ==
    /\ cleanup_pc = "idle"
    /\ CanRunTask(a)
    /\ manager_lock = "free"
    /\ manager_lock' = "held"
    /\ cleanup_pc' = "locked"
    /\ cleanup_loop' = a
    /\ remaining' = { b \in DOMAIN loops : connectors["event_loop_manager"][b] # NoConnector }
    /\ held_connectors' = { connectors["event_loop_manager"][b] : b \in DOMAIN loops }
                              \ {NoConnector}
    /\ UNCHANGED <<routeVars, botVars, pipeVars, loadVars, dispatchVars, otherThanLock,
                   connVars, closed, blocked, waited, suspensions>>

\* cleanup_all, one pass of its loop: `await connector.close()` for a
\* connector that is not closed, which suspends cleanup_all when the
\* connector has something to wait for and returns at once when it has not;
\* after the last connector the dict is cleared and the lock released.
CleanupAllClose(suspends) ==
    /\ cleanup_pc = "locked"
    /\ cleanup_loop \notin blocked
    /\ IF remaining = {}
       THEN /\ connectors' = [connectors EXCEPT
                                  !["event_loop_manager"] = NoConnectors(DOMAIN loops)]
            /\ manager_lock' = "free"
            /\ cleanup_pc' = "returned"
            /\ UNCHANGED <<remaining, closed, suspensions>>
       ELSE /\ \E b \in remaining :
                  LET suspended == suspends /\ connectors["event_loop_manager"][b] \notin closed
                  IN  /\ remaining' = remaining \ {b}
                      /\ closed' = closed \cup {connectors["event_loop_manager"][b]}
                      /\ cleanup_pc' = IF suspended THEN "closing" ELSE "locked"
                      /\ suspensions' = IF suspended THEN suspensions + 1 ELSE suspensions
            /\ UNCHANGED <<connectors, manager_lock>>
    /\ UNCHANGED <<routeVars, botVars, pipeVars, loadVars, dispatchVars, otherThanLock,
                   loops, handed, next_loop, next_connector, cleanup_loop, held_connectors,
                   blocked, waited>>

\* connector.close() is over and the loop runs cleanup_all again.
CleanupAllResume ==
    /\ cleanup_pc = "closing"
    /\ cleanup_loop \notin blocked
    /\ cleanup_pc' = "locked"
    /\ UNCHANGED <<routeVars, botVars, pipeVars, loadVars, dispatchVars, otherThanLock,
                   connVars, manager_lock, cleanup_loop, remaining, held_connectors, closed,
                   blocked, waited, suspensions>>

\* No command backend, authenticator or circuit breaker has been called.
ServiceIdle ==
    /\ CommandIdle
    /\ JwtIdle
    /\ BreakerIdle(FALSE)
    /\ LockIdle

\* None of the helpers above has been called.
UtilIdle ==
    /\ ServiceIdle
    /\ ForgeIdle
    /\ ConnIdle({})
    /\ DownloadIdle
    /\ CronIdle

(***************************************************************************)
(* Failures of the cache's file operations.                                *)
(***************************************************************************)
\* A lookup whose read error is not caught: the exception leaves __call__.
read_error_raised(rq) == [rq EXCEPT !.raised = TRUE, !.read_failed = TRUE]

\* _get_cached_response: `except (json.JSONDecodeError, FileNotFoundError,
\* Exception)` returns None, which __call__ takes for a miss.
read_error(rq) ==
    [rq EXCEPT !.wrapped = TRUE, !.pc = "running", !.looked_up_at = now,
               !.read_failed = TRUE]

\* _get_cached_response: os.path.exists, the open or the read raises.
LookupFails(r) ==
    /\ req[r].pc \in {"lookup_exists", "lookup_read"}
    /\ LET rq == read_error(req[r])
       IN  Apply(r, finish(IF rq.raised THEN World(rq)
                           ELSE call_app(World(rq), req[r].level + 1)))
    /\ UNCHANGED <<routeVars, botVars, loadVars, utilVars, dispatchVars,
                   configVars, config_loaded, cache_enabled,
                   include_patterns, now, content_cache, files, cleanup_lock, nreq, fresh, skipped>>

\* _cache_response: os.makedirs or the open raises, or the write does once
\* the file is open and empty; the except clause ends the task.
CacheResponseFails(t) ==
    /\ t.kind = "cache_response" /\ t.pc \in {"open", "write"}
    /\ tasks' = tasks \ {t}
    /\ req' = [r \in DOMAIN req |->
                  IF req[r].id = t.id THEN [req[r] EXCEPT !.write_failed = TRUE] ELSE req[r]]
    /\ UNCHANGED <<routeVars, botVars, loadVars, utilVars, dispatchVars,
                   configVars, config_loaded, cache_enabled,
                   include_patterns, now, response_status, response_headers,
                   content_cache, files, cleanup_lock, nreq, fresh, skipped>>

(***************************************************************************)
(* SpecRoute: RoutingSelector.find_endpoint on every table and path.       *)
(***************************************************************************)
RouteIdle ==
    /\ route_table = 1
    /\ route_path = <<>>
    /\ route_result = NotCalled

BotIdle ==
    /\ bot_config = 1
    /\ bot_user_agent = Absent
    /\ bot_answer = "none"

\* InFileCacheMiddleware.__init__, its last step: the task that runs
\* _cleanup_loop is created if cache_enabled holds at that point, and
\* nowhere else.
start_cleanup_loop(enabled) ==
    IF enabled THEN {Task("cleanup_loop", 0, "sleep", <<>>, NoData, <<>>)} ELSE {}

\* The proxy once ProxyCraft.__init__ has returned and the middleware stack
\* is built, with the optional middlewares `enabled`.
Constructed(enabled, connections) ==
    /\ flags = enabled
    /\ user_middleware = configure_middlewares(enabled)
    /\ config_loaded = FALSE
    /\ cache_enabled = FALSE
    /\ include_patterns = <<>>
    /\ now = 0
    /\ response_status = 0
    /\ response_headers = <<>>
    /\ content_cache = <<>>
    /\ files = [k \in Keys |-> NoFile]
    /\ cleanup_lock = FALSE
    /\ tasks = start_cleanup_loop(cache_enabled)
    /\ req = [r \in connections |-> IdleReq]
    /\ nreq = 0
    /\ fresh = [k \in Keys |-> NoFresh]
    /\ skipped = 0

NoMiddlewares ==
    [memory_cache |-> FALSE, file_cache |-> FALSE, bot_filter |-> FALSE,
     ip_filter |-> FALSE, resource_filter |-> FALSE]

PipeIdle == Constructed(NoMiddlewares, {1})

RouteInit ==
    /\ route_table \in 1..Len(RouteTables)
    /\ route_path \in StringsUpTo(MaxPathLen)
    /\ route_result = NotCalled
    /\ BotIdle
    /\ PipeIdle
    /\ LoadIdle
    /\ UtilIdle
    /\ DispatchIdle

FindEndpoint ==
    /\ route_result = NotCalled
    /\ route_result' = find_endpoint(RouteTables[route_table], route_path)
    /\ UNCHANGED <<route_table, route_path, botVars, pipeVars, loadVars, utilVars, dispatchVars>>

\* A further request on the same selector.
NextRequestPath ==
    /\ route_result # NotCalled
    /\ route_path' \in StringsUpTo(MaxPathLen)
    /\ route_result' = NotCalled
    /\ UNCHANGED <<route_table, botVars, pipeVars, loadVars, utilVars, dispatchVars>>

RouteNext == FindEndpoint \/ NextRequestPath

SpecRoute == RouteInit /\ [][RouteNext]_vars

(***************************************************************************)
(* SpecBot: BotFilterMiddleware alone in front of an app, as in its unit   *)
(* test.                                                                   *)
(***************************************************************************)
BotInit ==
    /\ bot_config \in 1..Len(BotConfigs)
    /\ bot_user_agent \in UserAgents
    /\ bot_answer = "none"
    /\ RouteIdle
    /\ PipeIdle
    /\ LoadIdle
    /\ UtilIdle
    /\ DispatchIdle

BotFilterCall ==
    /\ bot_answer = "none"
    /\ bot_answer' = bot_filter_call(BotConfigs[bot_config], bot_user_agent)
    /\ UNCHANGED <<bot_config, bot_user_agent, routeVars, pipeVars, loadVars, utilVars,
                   dispatchVars>>

BotNextRequest ==
    /\ bot_answer # "none"
    /\ bot_user_agent' \in UserAgents
    /\ bot_answer' = "none"
    /\ UNCHANGED <<bot_config, routeVars, pipeVars, loadVars, utilVars, dispatchVars>>

BotNext == BotFilterCall \/ BotNextRequest

SpecBot == BotInit /\ [][BotNext]_vars

(***************************************************************************)
(* SpecPipe: the whole middleware stack under every choice of optional     *)
(* middlewares, one request after the other, all within one ttl.           *)
(***************************************************************************)
PipeMaxRequests == 2

GetRequest(path, client_ip, user_agent, gzip, stream) ==
    Request(path, <<>>, "GET", client_ip, user_agent, gzip, stream)

PipeRequests ==
    { GetRequest(path, client.ip, client.user_agent, FALSE, FALSE) :
          path \in { <<"/", "a">>, <<"/", "f">> },
          client \in { [ip |-> CleanIp, user_agent |-> GoodBot],
                       [ip |-> BlockedIp, user_agent |-> GoodBot],
                       [ip |-> CleanIp, user_agent |-> BadBot],
                       [ip |-> Absent, user_agent |-> Absent] } }
      \cup { GetRequest(<<"/", "a">>, CleanIp, GoodBot, FALSE, TRUE),
             GetRequest(<<"/", "n">>, CleanIp, GoodBot, FALSE, FALSE),
             GetRequest(<<"/", "x">>, CleanIp, GoodBot, FALSE, FALSE),
             GetRequest(<<"/", "x">>, CleanIp, GoodBot, TRUE, FALSE),
             GetRequest(<<"/", "a">>, CleanIp, GoodBot, TRUE, FALSE),
             GetRequest(<<"/", "t">>, CleanIp, GoodBot, FALSE, FALSE),
             Request(<<"/", "a">>, <<>>, "POST", CleanIp, GoodBot, FALSE, FALSE) }

PipeReplies ==
    { Reply("response", 200, "text/plain", <<"a", "b">>),
      Reply("response", 404, "text/plain", <<"n">>),
      Reply("response", 200, "", <<>>),
      Reply("timeout", 0, "", <<>>) }

PipeChunks == { << <<"a">>, <<"b">> >> }

PipeInit ==
    /\ \E enabled \in MiddlewareFlags : Constructed(enabled, {1})
    /\ RouteIdle
    /\ BotIdle
    /\ LoadIdle
    /\ UtilIdle
    /\ DispatchIdle

PipeNext ==
    \/ LoadConfig
    \/ \E request \in PipeRequests : Receive(1, request, PipeMaxRequests)
    \/ LookupExists(1)
    \/ LookupRead(1)
    \/ \E reply \in PipeReplies : HttpsResponse(1, reply)
    \/ \E chunks \in PipeChunks : HttpsStream(1, chunks)
    \/ StreamChunk(1)
    \/ StreamEnd(1)
    \/ \E t \in tasks : CacheResponseStart(t)
    \/ \E t \in tasks : CacheResponseOpen(t)
    \/ \E t \in tasks : CacheResponseWrite(t)

SpecPipe == PipeInit /\ [][PipeNext]_vars

(***************************************************************************)
(* SpecCache: the file cache alone in front of a mock backend, one request *)
(* after the other while time passes and the cache's tasks run.            *)
(***************************************************************************)
CacheMaxRequests == 3
CacheMaxTime == 2

FileCacheOnly == [NoMiddlewares EXCEPT !.file_cache = TRUE]

CacheRequests == { GetRequest(<<"/", "m">>, CleanIp, GoodBot, FALSE, FALSE) }

CacheInit ==
    /\ Constructed(FileCacheOnly, {1})
    /\ RouteIdle
    /\ BotIdle
    /\ LoadIdle
    /\ UtilIdle
    /\ DispatchIdle

CacheNext ==
    \/ LoadConfig
    \/ \E request \in CacheRequests : Receive(1, request, CacheMaxRequests)
    \/ LookupExists(1)
    \/ LookupRead(1)
    \/ Tick(CacheMaxTime)
    \/ \E t \in tasks : CacheResponseStart(t)
    \/ \E t \in tasks : CacheResponseOpen(t)
    \/ \E t \in tasks : CacheResponseWrite(t)
    \/ \E t \in tasks : DeleteFileExists(t)
    \/ \E t \in tasks : DeleteFileRemove(t)

SpecCache == CacheInit /\ [][CacheNext]_vars

\* What the event loop does on its own: it runs every task that is ready
\* while the clock advances.  Nothing obliges a client to send a request.
CacheProgress ==
    \/ LoadConfig
    \/ LookupExists(1)
    \/ LookupRead(1)
    \/ Tick(CacheMaxTime)
    \/ \E t \in tasks : CacheResponseStart(t)
    \/ \E t \in tasks : CacheResponseOpen(t)
    \/ \E t \in tasks : CacheResponseWrite(t)
    \/ \E t \in tasks : DeleteFileExists(t)
    \/ \E t \in tasks : DeleteFileRemove(t)

\* The states in which a step of CacheProgress can be taken, from the
\* guards of its actions.
CacheProgressEnabled ==
    \/ flags.file_cache /\ ~config_loaded
    \/ req[1].pc \in {"lookup_exists", "lookup_read"}
    \/ now < CacheMaxTime
    \/ tasks # {}

\* The loop does not stop while a task is ready: weak fairness of every
\* task's step and of the clock; for the request that waits in its lookup,
\* whose steps are the only ones left when the others are disabled, the
\* same is stated through the guards.
CacheFairness ==
    /\ WF_vars(LoadConfig)
    /\ WF_vars(Tick(CacheMaxTime))
    /\ WF_vars(\E t \in tasks : CacheResponseStart(t))
    /\ WF_vars(\E t \in tasks : CacheResponseOpen(t))
    /\ WF_vars(\E t \in tasks : CacheResponseWrite(t))
    /\ WF_vars(\E t \in tasks : DeleteFileExists(t))
    /\ WF_vars(\E t \in tasks : DeleteFileRemove(t))
    /\ []<>(~CacheProgressEnabled)

SpecCacheFair == CacheInit /\ [][CacheNext]_vars /\ CacheFairness

(***************************************************************************)
(* SpecCleanup: admissions under two cache keys, which make the cache      *)
(* check its size and start cleanup passes.                                *)
(***************************************************************************)
CleanupMaxRequests == 3
CleanupMaxTime == 2

\* The client asks for one URL, then for another until it has changed.
CleanupRequests ==
    << Request(<<"/", "m">>, <<>>, "GET", CleanIp, GoodBot, FALSE, FALSE),
       Request(<<"/", "m">>, <<"q">>, "GET", CleanIp, GoodBot, FALSE, FALSE),
       Request(<<"/", "m">>, <<"q">>, "GET", CleanIp, GoodBot, FALSE, FALSE) >>

CleanupInit ==
    /\ Constructed(FileCacheOnly, {1})
    /\ RouteIdle
    /\ BotIdle
    /\ LoadIdle
    /\ UtilIdle
    /\ DispatchIdle

CleanupNext ==
    \/ LoadConfig
    \/ \E request \in {CleanupRequests[i] : i \in {nreq + 1} \cap DOMAIN CleanupRequests} :
           Receive(1, request, CleanupMaxRequests)
    \/ LookupExists(1)
    \/ LookupRead(1)
    \/ Tick(CleanupMaxTime)
    \/ \E t \in tasks : CacheResponseStart(t)
    \/ \E t \in tasks : CacheResponseOpen(t)
    \/ \E t \in tasks : CacheResponseWrite(t)
    \/ \E t \in tasks : DeleteFileExists(t)
    \/ \E t \in tasks : DeleteFileRemove(t)
    \/ \E t \in tasks : MaybeCleanupStart(t)
    \/ \E t \in tasks : MaybeCleanupCount(t)
    \/ \E t \in tasks : RunCleanupStart(t)
    \/ \E t \in tasks : CleanupListdir(t)
    \/ \E t \in tasks : CleanupIsfile(t)
    \/ \E t \in tasks : CleanupStat(t)
    \/ \E t \in tasks : CleanupRead(t)
    \/ \E t \in tasks : CleanupRemove(t)
    \/ \E t \in tasks : CleanupYield(t)

SpecCleanup == CleanupInit /\ [][CleanupNext]_vars

(***************************************************************************)
(* SpecRace: two connections send requests for one cacheable URL at the    *)
(* same time; the upstream streams its answer, answers at once, or fails,  *)
(* and a client may go away before its response is complete.               *)
(***************************************************************************)
RaceMaxRequests == 3

RaceConnections == {1, 2}

RaceRequests ==
    { GetRequest(<<"/", "a">>, CleanIp, GoodBot, FALSE, stream) : stream \in BOOLEAN }

RaceReplies ==
    { Reply("response", 404, "text/plain", <<"n">>),
      Reply("response", 200, "", <<>>) }

RaceChunks == { << <<"a">>, <<"b">> >> }

RaceInit ==
    /\ Constructed(FileCacheOnly, RaceConnections)
    /\ RouteIdle
    /\ BotIdle
    /\ LoadIdle
    /\ UtilIdle
    /\ DispatchIdle

RaceNext ==
    \/ LoadConfig
    \/ \E r \in RaceConnections, request \in RaceRequests : Receive(r, request, RaceMaxRequests)
    \/ \E r \in RaceConnections : LookupExists(r)
    \/ \E r \in RaceConnections : LookupRead(r)
    \/ \E r \in RaceConnections, reply \in RaceReplies : HttpsResponse(r, reply)
    \/ \E r \in RaceConnections, chunks \in RaceChunks : HttpsStream(r, chunks)
    \/ \E r \in RaceConnections : StreamChunk(r)
    \/ \E r \in RaceConnections : StreamEnd(r)
    \/ \E r \in RaceConnections : Cancel(r)
    \/ \E t \in tasks : CacheResponseStart(t)
    \/ \E t \in tasks : CacheResponseOpen(t)
    \/ \E t \in tasks : CacheResponseWrite(t)

SpecRace == RaceInit /\ [][RaceNext]_vars

(***************************************************************************)
(* SpecLoad: ProxyCraft constructed from every small configuration, given  *)
(* as a file or as a Config object, and then serving requests.             *)
(***************************************************************************)
MaxEndpoints == 3
MaxWeight == 3
LoadMaxRequests == 2

\* Every list of at most MaxEndpoints endpoints with weights up to MaxWeight.
LoadConfigs ==
    UNION { { [i \in 1..n |-> LoadEndpoint(i, w[i])] : w \in [1..n -> 1..MaxWeight] } :
            n \in 0..MaxEndpoints }

LoadInit ==
    /\ load_source \in {"file", "object", "missing_file"}
    /\ load_given \in LoadConfigs
    /\ constructed = FALSE
    /\ config_endpoints = <<>>
    /\ load_handled = 0
    /\ RouteIdle
    /\ BotIdle
    /\ PipeIdle
    /\ DispatchIdle
    /\ UtilIdle

LoadNext == Construct \/ LoadHandleRequest(LoadMaxRequests)

SpecLoad == LoadInit /\ [][LoadNext]_vars

(***************************************************************************)
(* SpecDispatch: requests served one after the other by handle_request     *)
(* over endpoints of every upstream mode; the requests that a virtual      *)
(* endpoint re-enters are served below the request that sent them.         *)
(***************************************************************************)
DispatchMaxRequests == 2

\* Scaled: the number of nested handle_request calls that the interpreter's
\* recursion limit allows.
RecursionLimit == 4

\* A mock that answers 200 to /x and 404 to any other path.
MockOf(body) ==
    Backends({"mock"}, {},
             << [pattern |-> <<"/", "x">>, template |-> Template(200, "text/plain", body)] >>,
             Template(404, "text/plain", <<"d">>))

\* config.endpoints: l is served from files, m by a mock, h by an https
\* upstream; v tries l, m and h; w and u name each other; p has both modes
\* enabled and a list of backends; d has its proxy disabled; n has neither
\* mode; s has another strategy; e has a backend with no variant set; o has
\* its virtual mode disabled; k names a source that no endpoint has.
DispatchEndpoints ==
    << DispatchEndpoint("l", <<"/", "l">>, <<"/", "l", "/", "*", "*">>, "enabled", NoVirtual,
                        << Backends({"file"}, {}, <<>>, NoDefault) >>),
       DispatchEndpoint("m", <<"/", "m">>, <<"/", "m", "/", "*", "*">>, "enabled", NoVirtual,
                        << MockOf(<<"m">>) >>),
       DispatchEndpoint("h", <<"/", "h">>, <<"/", "h", "/", "*", "*">>, "enabled", NoVirtual,
                        << Backends({"https"}, {"GET"}, <<>>, NoDefault) >>),
       DispatchEndpoint("v", <<"/", "v">>, <<"/", "v", "/", "*", "*">>, "absent",
                        Virtual(<<"l", "m", "h">>, TRUE, "first-match"), <<>>),
       DispatchEndpoint("w", <<"/", "w">>, <<"/", "w", "/", "*", "*">>, "absent",
                        Virtual(<<"u">>, TRUE, "first-match"), <<>>),
       DispatchEndpoint("u", <<"/", "u">>, <<"/", "u", "/", "*", "*">>, "absent",
                        Virtual(<<"w">>, TRUE, "first-match"), <<>>),
       DispatchEndpoint("p", <<"/", "p">>, <<"/", "p", "/", "*", "*">>, "enabled",
                        Virtual(<<"m">>, TRUE, "first-match"),
                        << MockOf(<<"p">>), Backends({"https"}, {"GET"}, <<>>, NoDefault) >>),
       DispatchEndpoint("d", <<"/", "d">>, <<"/", "d", "/", "*", "*">>, "disabled",
                        Virtual(<<"h", "m">>, TRUE, "first-match"), << MockOf(<<"p">>) >>),
       DispatchEndpoint("n", <<"/", "n">>, <<"/", "n", "/", "*", "*">>, "absent", NoVirtual,
                        << MockOf(<<"p">>) >>),
       DispatchEndpoint("s", <<"/", "s">>, <<"/", "s", "/", "*", "*">>, "disabled",
                        Virtual(<<"m">>, TRUE, "round-robin"), <<>>),
       DispatchEndpoint("e", <<"/", "e">>, <<"/", "e", "/", "*", "*">>, "enabled", NoVirtual,
                        << NoBackends >>),
       DispatchEndpoint("o", <<"/", "o">>, <<"/", "o", "/", "*", "*">>, "absent",
                        Virtual(<<"m">>, FALSE, "first-match"), <<>>),
       DispatchEndpoint("k", <<"/", "k">>, <<"/", "k", "/", "*", "*">>, "absent",
                        Virtual(<<"g", "m">>, TRUE, "first-match"), <<>>) >>

DispatchRequest(path, query, method) == [path |-> path, query |-> query, method |-> method]

\* GET for /x under every prefix and under one that no endpoint has, for
\* /y of the virtual endpoints, and /x of v and d with a query string and
\* of v and h as POST.
DispatchRequests ==
    { DispatchRequest(<<"/", c, "/", "x">>, <<>>, "GET") :
          c \in {"l", "m", "h", "v", "w", "p", "d", "n", "s", "e", "o", "k", "z"} }
    \cup { DispatchRequest(<<"/", c, "/", "y">>, <<>>, "GET") : c \in {"v", "d"} }
    \cup { DispatchRequest(<<"/", c, "/", "x">>, <<"q">>, "GET") : c \in {"v", "d"} }
    \cup { DispatchRequest(<<"/", c, "/", "x">>, <<>>, "POST") : c \in {"v", "h"} }

DispatchReplies ==
    { Reply("response", 200, "text/plain", <<"h">>),
      Reply("response", 404, "text/plain", <<"n">>),
      Reply("response", 200, "", <<>>) }

DispatchInit ==
    /\ DispatchIdle
    /\ RouteIdle
    /\ BotIdle
    /\ PipeIdle
    /\ LoadIdle
    /\ UtilIdle

DispatchNext ==
    \/ DispatchReceive(DispatchRequests, DispatchMaxRequests)
    \/ DispatchHandle(DispatchEndpoints)
    \/ DispatchUpstream(DispatchReplies)
    \/ DispatchReenter(DispatchEndpoints, RecursionLimit)
    \/ DispatchKeyError(DispatchEndpoints)
    \/ DispatchRecursionError(DispatchEndpoints, RecursionLimit)
    \/ DispatchExhausted(DispatchEndpoints)
    \/ DispatchReturn
    \/ DispatchDeliver

SpecDispatch == DispatchInit /\ [][DispatchNext]_vars

(***************************************************************************)
(* SpecForge: Https.handle_request forging the target of requests for      *)
(* every small backend url, endpoint prefix, path and query.               *)
(***************************************************************************)
MaxUrlLen == 3

\* backend.url: short strings over a letter, "/" and "$".
ForgeUrls == StringsOver({"h", "/", "$"}, MaxUrlLen) \ {<<>>}

\* Requests under the endpoint's prefix: the prefix alone, with a trailing
\* slash, and with a resource path.
ForgeRequests ==
    { ForgeRequest(url, <<"/", "p">>, <<"/", "p">> \o rest, query) :
          url \in ForgeUrls,
          rest \in { <<>>, <<"/">>, <<"/", "x">>, <<"/", "x", "/">> },
          query \in { <<>>, <<"q">> } }

ForgeInit ==
    /\ ForgeIdle
    /\ ConnIdle({})
    /\ DownloadIdle
    /\ CronIdle
    /\ ServiceIdle
    /\ RouteIdle
    /\ BotIdle
    /\ PipeIdle
    /\ LoadIdle
    /\ DispatchIdle

ForgeNext == ForgeTargetUrl \/ ForgeNextRequest(ForgeRequests)

SpecForge == ForgeInit /\ [][ForgeNext]_vars

(***************************************************************************)
(* SpecAdmit: the file cache alone, one request after the other: GETs of   *)
(* an included path behind an https upstream that answers 200, 302 or 404, *)
(* a POST, and a GET of a path that no include pattern matches; time       *)
(* passes, the cache's tasks run and its file operations may fail.         *)
(***************************************************************************)
AdmitMaxRequests == 3
AdmitMaxTime == 2

AdmitRequests ==
    { GetRequest(<<"/", "a">>, CleanIp, GoodBot, FALSE, FALSE),
      GetRequest(<<"/", "m", "/">>, CleanIp, GoodBot, FALSE, FALSE),
      Request(<<"/", "m">>, <<>>, "POST", CleanIp, GoodBot, FALSE, FALSE) }

AdmitReplies ==
    { Reply("response", 200, "text/plain", <<"a", "b">>),
      Reply("response", 302, "text/plain", <<"r">>),
      Reply("response", 404, "text/plain", <<"n">>) }

AdmitInit ==
    /\ Constructed(FileCacheOnly, {1})
    /\ RouteIdle
    /\ BotIdle
    /\ LoadIdle
    /\ UtilIdle
    /\ DispatchIdle

AdmitNext ==
    \/ LoadConfig
    \/ \E request \in AdmitRequests : Receive(1, request, AdmitMaxRequests)
    \/ LookupExists(1)
    \/ LookupRead(1)
    \/ LookupFails(1)
    \/ \E reply \in AdmitReplies : HttpsResponse(1, reply)
    \/ Tick(AdmitMaxTime)
    \/ \E t \in tasks : CacheResponseStart(t)
    \/ \E t \in tasks : CacheResponseOpen(t)
    \/ \E t \in tasks : CacheResponseWrite(t)
    \/ \E t \in tasks : CacheResponseFails(t)
    \/ \E t \in tasks : DeleteFileExists(t)
    \/ \E t \in tasks : DeleteFileRemove(t)

SpecAdmit == AdmitInit /\ [][AdmitNext]_vars

(***************************************************************************)
(* SpecEvict: the file cache alone; a client asks for six different        *)
(* cacheable URLs, one more than the memory cache should hold, then for    *)
(* the first one again, each once the cache has stored the one before.     *)
(***************************************************************************)
EvictMaxRequests == 7
EvictMaxTime == 1

EvictRequests ==
    << Request(<<"/", "m">>, <<>>, "GET", CleanIp, GoodBot, FALSE, FALSE),
       Request(<<"/", "m">>, <<"q">>, "GET", CleanIp, GoodBot, FALSE, FALSE),
       Request(<<"/", "a">>, <<>>, "GET", CleanIp, GoodBot, FALSE, FALSE),
       Request(<<"/", "a">>, <<"q">>, "GET", CleanIp, GoodBot, FALSE, FALSE),
       Request(<<"/", "t">>, <<>>, "GET", CleanIp, GoodBot, FALSE, FALSE),
       Request(<<"/", "t">>, <<"q">>, "GET", CleanIp, GoodBot, FALSE, FALSE),
       Request(<<"/", "m">>, <<>>, "GET", CleanIp, GoodBot, FALSE, FALSE) >>

EvictReplies == { Reply("response", 200, "text/plain", <<"a">>) }

EvictInit ==
    /\ Constructed(FileCacheOnly, {1})
    /\ RouteIdle
    /\ BotIdle
    /\ LoadIdle
    /\ UtilIdle
    /\ DispatchIdle

EvictNext ==
    \/ LoadConfig
    \/ \E request \in {EvictRequests[i] : i \in {nreq + 1} \cap DOMAIN EvictRequests} :
           /\ \A t \in tasks : t.kind # "cache_response"
           /\ Receive(1, request, EvictMaxRequests)
    \/ LookupExists(1)
    \/ LookupRead(1)
    \/ \E reply \in EvictReplies : HttpsResponse(1, reply)
    \/ Tick(EvictMaxTime)
    \/ \E t \in tasks : CacheResponseStart(t)
    \/ \E t \in tasks : CacheResponseOpen(t)
    \/ \E t \in tasks : CacheResponseWrite(t)

SpecEvict == EvictInit /\ [][EvictNext]_vars

(***************************************************************************)
(* SpecConn: event loops are created and closed, and code running in them  *)
(* asks the two managers for a connector; a shutdown cleans a manager up.  *)
(***************************************************************************)
MaxAddresses == 2
MaxLoops == 3
MaxConnectors == 3

Addresses == 1..MaxAddresses

ConnInit ==
    /\ ConnIdle(Addresses)
    /\ ForgeIdle
    /\ DownloadIdle
    /\ CronIdle
    /\ ServiceIdle
    /\ RouteIdle
    /\ BotIdle
    /\ PipeIdle
    /\ LoadIdle
    /\ DispatchIdle

ConnNext ==
    \/ \E a \in Addresses : NewLoop(a, MaxLoops)
    \/ \E a \in Addresses : CloseLoop(a)
    \/ \E m \in Managers, a \in Addresses : GetConnector(m, a, MaxConnectors)
    \/ \E m \in Managers : CleanupAll(m)

SpecConn == ConnInit /\ [][ConnNext]_vars

(***************************************************************************)
(* SpecDownload: download_text_file is called with paths that name         *)
(* nothing, regular UTF-8 text files, directories, fifos and symbolic      *)
(* links, and the iterator of the response is run to its end.              *)
(***************************************************************************)
\* buffering and read size of text_file_streamer (8192 in the source).
ChunkSize == 2
MaxFileLen == 4

FileChars == {"a", "E", "CR", "LF"}

DownloadEntries ==
    { Entry("file", "file", utf8_encode(text)) : text \in StringsOver(FileChars, MaxFileLen) }
        \cup { NoEntry, Entry("directory", "directory", <<>>), Entry("fifo", "fifo", <<>>),
               Entry("symlink", "missing", <<>>), Entry("symlink", "directory", <<>>) }
        \cup { Entry("symlink", "file", utf8_encode(text)) : text \in { <<>>, <<"a">> } }

DownloadInit ==
    /\ DownloadIdle
    /\ CronIdle
    /\ ServiceIdle
    /\ ForgeIdle
    /\ ConnIdle({})
    /\ RouteIdle
    /\ BotIdle
    /\ PipeIdle
    /\ LoadIdle
    /\ DispatchIdle

DownloadNext ==
    \/ DownloadNextPath(DownloadEntries)
    \/ DownloadTextFile
    \/ TextFileStreamer(ChunkSize)

SpecDownload == DownloadInit /\ [][DownloadNext]_vars

(***************************************************************************)
(* SpecCron: CronJob is constructed with schedules of four to six fields,  *)
(* most of them "*", with and without a newline at the end.                *)
(***************************************************************************)
MaxCronFields == 6

CronFieldStrings ==
    { Star, <<>>, <<"0">>, <<"1">>, <<"6">>, <<"7">>, <<"0", "1">>, <<"1", "2">>,
      <<"1", "3">>, <<"2", "3">>, <<"2", "4">>, <<"3", "1">>, <<"3", "2">>, <<"5", "9">>,
      <<"6", "0">> }

\* " ".join(fields).
RECURSIVE join_fields(_)
join_fields(fields) ==
    IF Len(fields) = 0 THEN <<>>
    ELSE IF Len(fields) = 1 THEN fields[1]
    ELSE fields[1] \o <<" ">> \o join_fields(Tail(fields))

\* Schedules of "*" fields with up to two fields of another content.
CronFieldLists ==
    UNION { { [i \in 1..n |-> IF i = p THEN a ELSE IF i = q THEN b ELSE Star] :
                  p \in 1..n, q \in 1..n, a \in CronFieldStrings, b \in CronFieldStrings } :
            n \in 4..MaxCronFields }

CronSchedules ==
    { join_fields(fields) \o end : fields \in CronFieldLists, end \in { <<>>, <<"LF">> } }

CronInit ==
    /\ CronIdle
    /\ ServiceIdle
    /\ DownloadIdle
    /\ ForgeIdle
    /\ ConnIdle({})
    /\ RouteIdle
    /\ BotIdle
    /\ PipeIdle
    /\ LoadIdle
    /\ DispatchIdle

CronNext == CronNextSchedule(CronSchedules) \/ ValidateCronSchedule

SpecCron == CronInit /\ [][CronNext]_vars

(***************************************************************************)
(* SpecChunk: the whole middleware stack in front of an upstream that      *)
(* streams one body in every way iter_chunked may cut it.                  *)
(***************************************************************************)
ChunkMaxRequests == 2
MaxBodyLen == 3

ChunkRequests ==
    { GetRequest(<<"/", "c">>, CleanIp, GoodBot, FALSE, TRUE),
      GetRequest(<<"/", "a">>, CleanIp, GoodBot, FALSE, TRUE) }

ChunkBodies == { <<"a", "b">>, <<"a", "a", "b">>, <<"b", "0xFF">> }

\* body[from..to].
Slice(body, from, to) == [i \in 1..(to - from + 1) |-> body[from + i - 1]]

\* The chunks of `body` when it is cut after each position of `cuts`.
RECURSIVE CutAt(_, _, _)
CutAt(body, cuts, from) ==
    IF from > Len(body) THEN <<>>
    ELSE LET later == { c \in cuts : c >= from }
             to == IF later = {} THEN Len(body)
                   ELSE CHOOSE c \in later : \A d \in later : c <= d
         IN  << Slice(body, from, to) >> \o CutAt(body, cuts, to + 1)

\* response.content.iter_chunked: the body arrives in non-empty chunks, cut
\* wherever the network delivered it.
iter_chunked(body) == { CutAt(body, cuts, 1) : cuts \in SUBSET (1..(Len(body) - 1)) }

ChunkChunks == UNION { iter_chunked(body) : body \in { b \in ChunkBodies : Len(b) <= MaxBodyLen } }

ChunkInit ==
    /\ \E enabled \in MiddlewareFlags : Constructed(enabled, {1})
    /\ RouteIdle
    /\ BotIdle
    /\ LoadIdle
    /\ UtilIdle
    /\ DispatchIdle

ChunkNext ==
    \/ LoadConfig
    \/ \E request \in ChunkRequests : Receive(1, request, ChunkMaxRequests)
    \/ LookupExists(1)
    \/ LookupRead(1)
    \/ \E chunks \in ChunkChunks : HttpsStream(1, chunks)
    \/ StreamChunk(1)
    \/ StreamEnd(1)
    \/ \E t \in tasks : CacheResponseStart(t)
    \/ \E t \in tasks : CacheResponseOpen(t)
    \/ \E t \in tasks : CacheResponseWrite(t)

SpecChunk == ChunkInit /\ [][ChunkNext]_vars

(***************************************************************************)
(* SpecCommand: one request to a command backend whose subprocess writes   *)
(* and exits when it likes, or never.                                      *)
(***************************************************************************)
CommandMaxTime == 4
CommandMaxOutput == 3

CommandInit ==
    /\ ServiceIdle
    /\ ForgeIdle
    /\ ConnIdle({})
    /\ DownloadIdle
    /\ CronIdle
    /\ RouteIdle
    /\ BotIdle
    /\ PipeIdle
    /\ LoadIdle
    /\ DispatchIdle

CommandNext ==
    \/ \E body_is_json \in BOOLEAN : CommandHandleRequest(body_is_json)
    \/ StreamSpawn
    \/ StreamRead
    \/ StreamDrain
    \/ StreamWait
    \/ ProcessWrites(CommandMaxOutput)
    \/ ProcessExits
    \/ ProcessRuns(CommandMaxTime)

SpecCommand == CommandInit /\ [][CommandNext]_vars

(***************************************************************************)
(* SpecJwt: one JWTAuth whose get_headers is called as time passes.        *)
(***************************************************************************)
JwtMaxCalls == 5
JwtMaxTime == 9

JwtInit ==
    /\ ServiceIdle
    /\ ForgeIdle
    /\ ConnIdle({})
    /\ DownloadIdle
    /\ CronIdle
    /\ RouteIdle
    /\ BotIdle
    /\ PipeIdle
    /\ LoadIdle
    /\ DispatchIdle

JwtNext == JwtGetHeaders(JwtMaxCalls) \/ JwtTick(JwtMaxTime)

SpecJwt == JwtInit /\ [][JwtNext]_vars

(***************************************************************************)
(* SpecBreaker: one CircuitBreakingMiddleware, with circuit breaking       *)
(* enabled or not, in front of an app that answers as it likes.            *)
(***************************************************************************)
BreakerMaxCalls == 4
BreakerMaxTime == 4

BreakerStatuses == { "200", "500", "502" }
BreakerResponseTimes == { 0, 2 }

BreakerInit ==
    /\ \E enabled \in BOOLEAN : BreakerIdle(enabled)
    /\ CommandIdle
    /\ JwtIdle
    /\ LockIdle
    /\ ForgeIdle
    /\ ConnIdle({})
    /\ DownloadIdle
    /\ CronIdle
    /\ RouteIdle
    /\ BotIdle
    /\ PipeIdle
    /\ LoadIdle
    /\ DispatchIdle

BreakerNext ==
    \/ \E path \in BreakerPaths, status \in BreakerStatuses,
          response_time \in BreakerResponseTimes :
           BreakerCall(path, status, response_time, BreakerMaxCalls)
    \/ BreakerTick(BreakerMaxTime)

SpecBreaker == BreakerInit /\ [][BreakerNext]_vars

(***************************************************************************)
(* SpecShutdown: event loops take connectors from event_loop_manager while *)
(* one of them runs cleanup_all.  Every thread that can run does run.      *)
(***************************************************************************)
ShutdownInit ==
    /\ ConnIdle(Addresses)
    /\ LockIdle
    /\ CommandIdle
    /\ JwtIdle
    /\ BreakerIdle(FALSE)
    /\ ForgeIdle
    /\ DownloadIdle
    /\ CronIdle
    /\ RouteIdle
    /\ BotIdle
    /\ PipeIdle
    /\ LoadIdle
    /\ DispatchIdle

ShutdownNext ==
    \/ \E a \in Addresses : NewLoop(a, MaxLoops)
    \/ \E a \in Addresses : LockedGetConnector(a, MaxConnectors)
    \/ \E a \in Addresses : LockAcquired(a, MaxConnectors)
    \/ \E a \in Addresses : CleanupAllEnter(a)
    \/ \E suspends \in BOOLEAN : CleanupAllClose(suspends)
    \/ CleanupAllResume

ShutdownFairness ==
    /\ WF_vars(\E suspends \in BOOLEAN : CleanupAllClose(suspends))
    /\ WF_vars(CleanupAllResume)
    /\ WF_vars(\E a \in Addresses : LockAcquired(a, MaxConnectors))

SpecShutdown == ShutdownInit /\ [][ShutdownNext]_vars /\ ShutdownFairness
(***************************************************************************)
(* Claims.                                                                 *)
(***************************************************************************)
\* The first endpoint, in table order, whose match pattern matches `path`
\* (0 when none does), stated without the selector's scan.
FirstMatching(table, path) ==
    LET hits == {i \in 1..Len(table) : ant_match(table[i], path)}
    IN  IF hits = {} THEN 0 ELSE CHOOSE i \in hits : \A j \in hits : i <= j

\* C1: for every request path, find_endpoint appends "/" when the path does
\* not end with one and returns the first endpoint, in config.endpoints
\* order, whose match pattern matches the normalized path; no endpoint is
\* returned while an earlier-listed endpoint also matches.
C1_FirstMatchWins ==
    route_result # NotCalled =>
        LET table == RouteTables[route_table]
            path == IF Len(route_path) > 0 /\ route_path[Len(route_path)] = "/"
                    THEN route_path ELSE route_path \o <<"/">>
            first == FirstMatching(table, path)
        IN  first # 0 => route_result = Found(first)

\* C4: the bot filter answers 403 if and only if it is enabled, the request
\* carries a User-Agent, no whitelist glob matches it and some blacklist
\* glob matches it; in every other case the request is passed on.
C4_BotFilterIff ==
    bot_answer # "none" =>
        LET cfg == BotConfigs[bot_config]
            ua == bot_user_agent
            white == \E i \in 1..Len(cfg.whitelist) : ant_match(cfg.whitelist[i], ua.value)
            black == \E i \in 1..Len(cfg.blacklist) : ant_match(cfg.blacklist[i], ua.value)
            deny == cfg.enabled /\ ua.present /\ ~white /\ black
        IN  /\ (bot_answer = "403") <=> deny
            /\ (bot_answer = "pass") <=> ~deny

\* C4 witness: a User-Agent on both lists was passed on by an enabled filter.
C4_Witness ==
    /\ bot_answer = "pass"
    /\ BotConfigs[bot_config].enabled
    /\ bot_user_agent.present
    /\ \E i \in 1..Len(BotConfigs[bot_config].whitelist) :
           ant_match(BotConfigs[bot_config].whitelist[i], bot_user_agent.value)
    /\ \E i \in 1..Len(BotConfigs[bot_config].blacklist) :
           ant_match(BotConfigs[bot_config].blacklist[i], bot_user_agent.value)

\* The place of each middleware in the composition order as documented,
\* outermost first; the terminal handler comes last.
ClaimedRank(cls) ==
    CASE cls = "CompressionMiddleware" -> 1
      [] cls = "ResponseTransformerMiddleware" -> 2
      [] cls = "ResourceFilterMiddleware" -> 3
      [] cls = "IpFilterMiddleware" -> 4
      [] cls = "BotFilterMiddleware" -> 5
      [] cls = "InFileCacheMiddleware" -> 6
      [] cls = "InMemoryCacheMiddleware" -> 7
      [] cls = "ContentLengthMiddleware" -> 8
      [] OTHER -> 9

\* C2: within one request the middlewares are entered strictly in the order
\* CompressionMiddleware, response transformer, ResourceFilter, IP filter,
\* bot filter, file cache, memory cache, Content-Length rewriter, terminal
\* handler; in particular the IP and bot filters are entered before the
\* file cache.
C2_ClaimedOrder ==
    \A r \in DOMAIN req :
        \A i, j \in 1..Len(req[r].trace) :
            i < j => ClaimedRank(req[r].trace[i]) < ClaimedRank(req[r].trace[j])

Position(trace, cls) ==
    IF \E i \in 1..Len(trace) : trace[i] = cls
    THEN CHOOSE i \in 1..Len(trace) : trace[i] = cls
    ELSE 0

\* C3: with the IP filter enabled, every request whose client address
\* matches a blacklist glob is answered 403 "Access denied", whatever
\* requests came before it (the file cache may hold its path and query);
\* a request whose address matches no blacklist entry, or that has no
\* client address, is passed by the filter to the next handler.
C3_BlacklistedAlways403 ==
    \A r \in DOMAIN req :
        (flags.ip_filter /\ req[r].pc = "done") =>
            LET ip == req[r].request.client_ip
                listed == ip.present /\ \E i \in 1..Len(IpBlacklist) :
                                            ant_match(IpBlacklist[i], ip.value)
                at == Position(req[r].trace, "IpFilterMiddleware")
            IN  IF listed
                THEN /\ Len(req[r].out) = 2
                     /\ req[r].out[1].status = 403
                     /\ req[r].out[2].body = AccessDenied
                ELSE at > 0 => Len(req[r].trace) > at

RECURSIVE Delivered(_)
Delivered(out) ==
    IF Len(out) = 0 THEN 0
    ELSE (IF out[1].type = "http.response.body" THEN Len(out[1].body) ELSE 0)
             + Delivered(Tail(out))

ContentLengths(headers) == {i \in 1..Len(headers) : headers[i].name = "content-length"}

\* C9: every response that reaches the client, whichever middleware or
\* backend produced it, starts with a header list holding exactly one
\* content-length, whose value is the number of body bytes delivered.
C9_ContentLengthExact ==
    \A r \in DOMAIN req :
        Len(req[r].out) > 0 =>
            /\ req[r].out[1].type = "http.response.start"
            /\ Cardinality(ContentLengths(req[r].out[1].headers)) = 1
            /\ \A i \in ContentLengths(req[r].out[1].headers) :
                   req[r].out[1].headers[i].num = Delivered(req[r].out)

\* C9 witness: a body that the response transformer lengthened, and a
\* streamed body, have reached clients with their final lengths.
C9_Witness ==
    \E r \in DOMAIN req :
        /\ req[r].pc = "done"
        /\ req[r].request.path = <<"/", "a">>
        /\ req[r].handler_called
        /\ Len(req[r].out) = 2
        /\ req[r].out[2].body = <<"b", "b", "b">>
        /\ \E i \in ContentLengths(req[r].out[1].headers) :
               req[r].out[1].headers[i].num = 3

HasCacheStatusHit(headers) ==
    \E i \in 1..Len(headers) :
        headers[i].name = "x-cache-status" /\ headers[i].text = "HIT"

\* C5: once the admission of a GET's complete successful response has
\* finished, the next GET for the same path and query that is looked up
\* within ttl of it is served from the cache without the inner handler being
\* called, with x-cache-status: HIT, the admitted status and the admitted
\* body; a response that was a MISS carries no x-cache-status.
C5_HitAfterAdmission ==
    \A r \in DOMAIN req :
        req[r].pc = "done" =>
            /\ (req[r].expected.valid
                    /\ req[r].looked_up_at - req[r].expected.data.timestamp <= ttl) =>
                   /\ req[r].hit
                   /\ ~req[r].handler_called
                   /\ Len(req[r].out) = 2
                   /\ HasCacheStatusHit(req[r].out[1].headers)
                   /\ req[r].out[1].status = req[r].expected.data.status_code
                   /\ req[r].out[2].body = b64decode(req[r].expected.data.content)
            /\ req[r].wrapped =>
                   /\ Len(req[r].out) = 2
                   /\ ~has_header(req[r].out[1].headers, "x-cache-status")

\* C6: whenever a response is served from the cache, the entry served was
\* created at most ttl ago; an earlier read of the entry, which puts it in
\* the memory cache under the time of the read, does not make it live longer.
C6_HitWithinTtl ==
    \A r \in DOMAIN req :
        req[r].hit => req[r].looked_up_at - req[r].hit_data.timestamp <= ttl

\* C6 witness: an entry that an earlier HIT had put in the memory cache is
\* served again at the very end of its life, later than it was created.
C6_Witness ==
    \E r \in DOMAIN req :
        /\ req[r].hit
        /\ req[r].id = 3
        /\ req[r].hit_data.timestamp = 0
        /\ req[r].looked_up_at = ttl
        /\ dict_has(content_cache, RequestKey(req[r]))
        /\ dict_get(content_cache, RequestKey(req[r])).timestamp = ttl

\* The body an entry holds.
StoredBody(cache_data) ==
    IF cache_data.is_bytes THEN cache_data.content ELSE b64decode(cache_data.content)

\* C7: under every interleaving of concurrent cacheable GETs, each entry of
\* the file tier and of the memory tier holds the status code and the
\* headers of the response whose body it holds, and that response's status
\* is below 400.
C7_EntryOfOneResponse ==
    LET Sound(cache_data) ==
            /\ cache_data.status_code = cache_data.origin.status
            /\ cache_data.headers = dict_of_headers(cache_data.origin.headers)
            /\ cache_data.origin.status < 400
            /\ cache_data.status_code < 400
    IN  /\ \A k \in Keys : files[k].json => Sound(files[k].data)
        /\ \A i \in 1..Len(content_cache) : Sound(content_cache[i].data)

\* C8: an entry is admitted only once the final body chunk of its response
\* was seen, and its body is all the chunks of that one response in order;
\* a request cancelled before its final chunk leaves nothing in either tier
\* and no admission under way.
C8_WholeBodyOnly ==
    LET Whole(cache_data) ==
            /\ cache_data.origin.complete
            /\ StoredBody(cache_data) = cache_data.origin.body
            /\ \A r \in DOMAIN req :
                   req[r].pc = "cancelled" => cache_data.origin.id # req[r].id
    IN  /\ \A k \in Keys : files[k].json => Whole(files[k].data)
        /\ \A i \in 1..Len(content_cache) : Whole(content_cache[i].data)
        /\ \A t \in tasks :
               t.kind = "cache_response" =>
                   \A r \in DOMAIN req :
                       req[r].pc = "cancelled" => t.data.origin.id # req[r].id

\* The cleanup passes in progress: the _run_cleanup tasks that hold the lock.
CleanupsRunning == {t \in tasks : t.kind = "run_cleanup" /\ t.pc # "start"}

\* C10: at any time at most one cleanup pass is in progress, the lock being
\* held exactly while one is; a cleanup started meanwhile is skipped, so
\* that none waits for the lock and none runs beside the first.
C10_SingleCleanup ==
    /\ Cardinality(CleanupsRunning) <= 1
    /\ cleanup_lock <=> CleanupsRunning # {}

\* C10 witness: a cleanup was started while a pass was in progress and
\* returned at once; the pass is still under way, with files left to visit.
C10_Witness ==
    /\ skipped > 0
    /\ cleanup_lock
    /\ \E t \in CleanupsRunning : Len(t.todo) > 0

(***************************************************************************)
(* Expiry without further requests.                                        *)
(***************************************************************************)
\* The cache keys under which either tier holds an entry older than ttl.
ExpiredKeys ==
    { k \in Keys :
        \/ files[k].exists /\ files[k].json /\ files[k].data.timestamp + ttl < now
        \/ \E i \in 1..Len(content_cache) :
               content_cache[i].key = k /\ content_cache[i].timestamp + ttl < now }

\* C11: with the file cache enabled a cleanup pass runs every
\* cleanup_interval seconds, so that an entry with created_at + ttl < now is
\* eventually deleted from both tiers although no request arrives for it.
C11_ExpiredEventuallyDeleted ==
    \A k \in { generate_cache_key(r.path, r.query_string) : r \in CacheRequests } :
        (k \in ExpiredKeys) ~> (k \notin ExpiredKeys)

\* Every step of CacheProgress starts in a state of CacheProgressEnabled.
CacheProgressGuarded == [][CacheProgress => CacheProgressEnabled]_vars

(***************************************************************************)
(* Requests that no endpoint matches.                                      *)
(***************************************************************************)
\* No pattern of config.endpoints matches the path once "/" is appended to
\* a path that does not end with one.
Unrouted(endpoints, path) ==
    FirstMatching(Matches(endpoints),
                  IF Len(path) > 0 /\ path[Len(path)] = "/" THEN path
                  ELSE path \o <<"/">>) = 0

\* The request was answered by a security or resource filter, which does
\* not call the inner application.
AnsweredByFilter(rq) ==
    /\ Len(rq.trace) > 0
    /\ rq.trace[Len(rq.trace)] \in
           {"BotFilterMiddleware", "IpFilterMiddleware", "ResourceFilterMiddleware"}

\* C12: a request whose normalized path no endpoint matches is answered
\* 404 Not Found, whichever middlewares are enabled and whether or not it
\* carries Accept-Encoding: gzip.
C12_UnroutedIs404 ==
    \A r \in DOMAIN req :
        (/\ req[r].pc = "done"
         /\ Unrouted(PipeEndpoints, req[r].request.path)
         /\ ~AnsweredByFilter(req[r]))
        => /\ Len(req[r].out) = 2
           /\ req[r].out[1].status = 404
           /\ req[r].out[2].body = NotFound

(***************************************************************************)
(* The https backend's method gate.                                        *)
(***************************************************************************)
\* The endpoint of config.endpoints that serves the path: the first whose
\* pattern matches it (0 when none does).
EndpointOf(endpoints, path) ==
    FirstMatching(Matches(endpoints),
                  IF Len(path) > 0 /\ path[Len(path)] = "/" THEN path
                  ELSE path \o <<"/">>)

\* The request reached an https backend that does not list its method.
MethodNotListed(rq) ==
    /\ rq.handler_called
    /\ LET i == EndpointOf(PipeEndpoints, rq.request.path)
       IN  /\ i # 0
           /\ PipeEndpoints[i].upstream = "proxy"
           /\ PipeEndpoints[i].backend = "https"
           /\ rq.request.method \notin PipeEndpoints[i].methods

\* C13: a request to an https backend whose method is not in
\* backend.methods is answered 405 Method Not Allowed, and no request is
\* made to the upstream for it.
C13_MethodGate405 ==
    \A r \in DOMAIN req :
        MethodNotListed(req[r]) =>
            /\ req[r].upstream_calls = 0
            /\ req[r].pc = "done" => /\ Len(req[r].out) = 2
                                     /\ req[r].out[1].status = 405

(***************************************************************************)
(* Response transformation.                                                *)
(***************************************************************************)
\* Every replacement of the list applied in turn, each to the result of
\* the one before, with ${path} in newvalue expanded to the request path.
RECURSIVE ReplacedInOrder(_, _, _)
ReplacedInOrder(textReplacements, text, path) ==
    IF Len(textReplacements) = 0 THEN text
    ELSE ReplacedInOrder(
             Tail(textReplacements),
             str_replace(text, textReplacements[1].oldvalue,
                         str_replace(textReplacements[1].newvalue, PathVariable, path)),
             path)

\* C20: when the matched endpoint has transformers.response.enabled and
\* N >= 1 textReplacements, the body delivered to the client is the upstream
\* body with all N replacements applied in list order, for every N.
C20_AllReplacementsApplied ==
    \A r \in DOMAIN req :
        (/\ req[r].pc = "done"
         /\ req[r].upstream_answered
         /\ ~req[r].raised)
        => LET endpoint == PipeEndpoints[EndpointOf(PipeEndpoints, req[r].request.path)]
           IN  (/\ endpoint.transformers.present
                /\ endpoint.transformers.enabled
                /\ Len(endpoint.transformers.textReplacements) >= 1)
               => /\ Len(req[r].out) = 2
                  /\ req[r].out[2].body =
                         ReplacedInOrder(endpoint.transformers.textReplacements,
                                         req[r].upstream_body, req[r].request.path)

(***************************************************************************)
(* The order of config.endpoints.                                          *)
(***************************************************************************)
\* The endpoints the proxy was constructed with: those of the file or the
\* object, those of the default configuration when the file is missing.
GivenEndpoints == IF load_source = "missing_file" THEN DefaultEndpoints ELSE load_given

\* `sorted` holds the endpoints of `given`, by weight descending, those of
\* equal weight in the order they have in `given`.
StablyByWeight(sorted, given) ==
    /\ Len(sorted) = Len(given)
    /\ \A i \in 1..Len(given) : \E j \in 1..Len(sorted) : sorted[j] = given[i]
    /\ \A i, j \in 1..Len(sorted) :
           i < j => \/ sorted[i].weight > sorted[j].weight
                    \/ /\ sorted[i].weight = sorted[j].weight
                       /\ sorted[i].identifier < sorted[j].identifier

\* C19: once a ProxyCraft is constructed, from a config file or from a
\* Config object, config.endpoints is ordered by weight descending, equal
\* weights in their original order, and handling requests never changes it.
C19_EndpointsSorted ==
    constructed => StablyByWeight(config_endpoints, GivenEndpoints)

(***************************************************************************)
(* Virtual endpoints.                                                      *)
(***************************************************************************)
\* The calls of handle_request that are running or have just answered the
\* client.
Frames == {stack[i] : i \in 1..Len(stack)} \cup (IF answer.pc = "done" THEN {answer} ELSE {})

\* The calls that run the first-match loop of a virtual endpoint.
VirtualFrames == {f \in Frames : f.mode = "virtual"}

SourcesOf(f) == DispatchEndpoints[f.endpoint].virtual.sources

\* The re-entered requests of f that have returned.
Returned(f) == {k \in 1..Len(f.tried) : f.tried[k].status_code # 0}

\* C14: a first-match virtual endpoint tries its sources in the order of
\* upstream.virtual.sources, each re-entered request reaching the endpoint
\* that the source names; it returns the response of the first source
\* answering 200 and contacts no source after it; when no source answers
\* 200 it returns 404 Not Found.
C14_FirstMatch ==
    \A f \in VirtualFrames :
        /\ Len(f.tried) <= Len(SourcesOf(f))
        /\ \A k \in 1..Len(f.tried) :
               /\ f.tried[k].source = SourcesOf(f)[k]
               /\ k < Len(f.tried) => f.tried[k].status_code \notin {0, 200}
               /\ k \in Returned(f) =>
                      f.tried[k].served_by
                          = endpoints_by_identifier(DispatchEndpoints, f.tried[k].source)
        /\ f.pc = "done" =>
               IF \E k \in Returned(f) : f.tried[k].status_code = 200
               THEN LET first == f.tried[Len(f.tried)]
                    IN  /\ first.status_code = 200
                        /\ f.response.status_code = 200
                        /\ f.response.body = first.body
                        /\ f.response.content_type
                               = (IF first.content_type = "" THEN "application/text"
                                  ELSE first.content_type)
               ELSE /\ Len(f.tried) = Len(SourcesOf(f))
                    /\ f.response.status_code = 404
                    /\ f.response.body = NotFound

\* C15: a virtual endpoint whose sources lead back to it is not re-entered
\* while it is being served: the cycle is detected, and the client of a
\* request that met one receives 500.
C15_CycleBroken ==
    /\ \A i, j \in 1..Len(stack) :
           i < j /\ stack[i].endpoint # 0 /\ stack[j].pc # "route"
               => stack[j].endpoint # stack[i].endpoint
    /\ answer.pc = "done" /\ answer.cycle => answer.response.status_code = 500

\* C16: every request that a virtual endpoint re-enters has the path
\* source_endpoint.prefix + (request path without the virtual endpoint's
\* prefix) and the request's query string, whether that is empty or not.
C16_SourceTarget ==
    \A f \in VirtualFrames :
        \A k \in 1..Len(f.tried) :
            LET source_endpoint ==
                    DispatchEndpoints[endpoints_by_identifier(DispatchEndpoints,
                                                              f.tried[k].source)]
            IN  /\ f.tried[k].path
                       = source_endpoint.prefix
                           \o removeprefix(f.path, DispatchEndpoints[f.endpoint].prefix)
                /\ f.tried[k].query = f.query

(***************************************************************************)
(* Upstream mode and backend handler.                                      *)
(***************************************************************************)
\* The calls that have found their endpoint and taken their branch.
Routed == {f \in Frames : f.endpoint # 0 /\ f.pc # "route"}

\* What marks each branch: the proxy branch re-enters nothing, the virtual
\* loop invokes no handler, the 404 branch does neither.
InProxyMode(f) == f.mode = "proxy" /\ f.tried = <<>>

InVirtualMode(f) == f.mode = "virtual" /\ f.invoked = <<>> /\ f.upstream_calls = 0

Answered404(f) ==
    /\ f.mode = "none"
    /\ f.pc = "done"
    /\ f.tried = <<>>
    /\ f.invoked = <<>>
    /\ f.response = Response(404, "text/plain; charset=utf-8", NotFound)

\* The statement of C17 as worded: virtual.enabled alone selects the
\* first-match loop.
C17_ModeSelectionAsWorded ==
    \A f \in Routed :
        LET endpoint == DispatchEndpoints[f.endpoint]
        IN  IF endpoint.proxy = "enabled" THEN InProxyMode(f)
            ELSE IF endpoint.virtual.present /\ endpoint.virtual.enabled THEN InVirtualMode(f)
            ELSE Answered404(f)

\* C17: for the matched endpoint, upstream.proxy.enabled dispatches the
\* selected backend, also when virtual is enabled as well; else
\* upstream.virtual.enabled with the strategy first-match runs the virtual
\* loop; otherwise, any other strategy included, the response is 404 Not
\* Found.
C17_ModeSelection ==
    \A f \in Routed :
        LET endpoint == DispatchEndpoints[f.endpoint]
        IN  IF endpoint.proxy = "enabled" THEN InProxyMode(f)
            ELSE IF endpoint.virtual.present /\ endpoint.virtual.enabled
                      /\ endpoint.virtual.strategy = "first-match"
            THEN InVirtualMode(f)
            ELSE Answered404(f)

\* The client of /p/x, whose endpoint enables both modes, is answered by the
\* endpoint's own backend.
C17_Witness ==
    /\ answer.pc = "done"
    /\ answer.endpoint # 0
    /\ DispatchEndpoints[answer.endpoint].proxy = "enabled"
    /\ DispatchEndpoints[answer.endpoint].virtual.enabled
    /\ answer.mode = "proxy"
    /\ answer.response.body = <<"p">>

\* C18: in proxy mode exactly one handler is invoked for a request, that of
\* the variant set on the selected backend (the first of a list); with no
\* variant set the client receives 500 and no handler is invoked.
C18_OneHandler ==
    \A f \in Routed :
        f.mode = "proxy" =>
            LET backend == DispatchEndpoints[f.endpoint].backends[1]
            IN  IF backend.variants = {}
                THEN f.invoked = <<>> /\ f.pc = "done" /\ f.response.status_code = 500
                ELSE Len(f.invoked) = 1 /\ f.invoked[1] \in backend.variants

(***************************************************************************)
(* The target URL of an https backend.                                     *)
(***************************************************************************)
\* The target that C21 describes for a request.
ClaimedTarget(r) ==
    IF endswith(r.url, "$") THEN SubSeq(r.url, 1, Len(r.url) - 1)
    ELSE r.url \o <<"/">> \o strip(removeprefix(r.path, r.prefix), "/")
             \o (IF Len(r.query) > 0 THEN <<"?">> \o r.query ELSE <<>>)

\* C21: the target of an https backend is backend.url without its "$" when
\* the url ends with "$", whatever the request's path and query; otherwise
\* it is backend.url + "/" + the request path without the endpoint's prefix
\* and without leading and trailing "/", followed by "?" and the query only
\* when the request has a query string.
C21_TargetUrl == forge_pc = "returned" => target_url = ClaimedTarget(forge_request)

(***************************************************************************)
(* What the file cache looks up and admits.                                *)
(***************************************************************************)
\* The request is not cacheable: its method is not GET, or no glob of the
\* configuration's include_patterns matches its path.
NotCacheable(rq) ==
    /\ rq.pc # "idle"
    /\ \/ rq.request.method # "GET"
       \/ \A i \in 1..Len(IncludePatterns) : ~ant_match(IncludePatterns[i], rq.request.path)

\* The response of the mock backend that serves the request's path.
MockResponseOf(rq) == mock_response(PipeEndpoints[EndpointOf(PipeEndpoints, rq.request.path)].mock)

\* The cache has nothing to do with the request: no lookup, no hit, no send
\* wrapper that could admit its response; once it has ended, the inner
\* handler was called and the client has the handler's status and body.
PassedBy(rq) ==
    /\ rq.pc \notin {"lookup_exists", "lookup_read"}
    /\ ~rq.wrapped
    /\ ~rq.hit
    /\ rq.origin = NoOrigin
    /\ rq.pc = "done" =>
           /\ rq.handler_called
           /\ Len(rq.out) = 2
           /\ rq.out[1].status = MockResponseOf(rq)[1].status
           /\ rq.out[2].body = MockResponseOf(rq)[2].body
           /\ ~has_header(rq.out[1].headers, "x-cache-status")

Redirect(status_code) == 300 <= status_code /\ status_code < 400

\* C23: no entry of the memory cache or of a cache file holds a response
\* with a 3xx status, and no request is served such an entry.
C23_NoRedirectCached ==
    /\ \A i \in 1..Len(content_cache) : ~Redirect(content_cache[i].data.status_code)
    /\ \A k \in Keys : files[k].exists /\ files[k].json => ~Redirect(files[k].data.status_code)
    /\ \A r \in DOMAIN req :
           req[r].hit => ~Redirect(req[r].hit_data.status_code) /\ ~Redirect(req[r].out[1].status)

\* The memory cache holds the key with an entry put there at most ttl ago.
InMemoryWithinTtl(key) ==
    dict_has(content_cache, key) /\ now - dict_get(content_cache, key).timestamp <= ttl

\* C24: a cacheable GET that arrives while the memory cache holds its key
\* with now - created_at <= ttl is served from memory at once, as a HIT and
\* without the inner handler, whatever has become of the key's file.
C24_MemoryFirst ==
    [][\A r \in DOMAIN req :
           (/\ req'[r].id # req[r].id
            /\ cache_enabled
            /\ ~NotCacheable(req'[r])
            /\ InMemoryWithinTtl(RequestKey(req'[r])))
               => /\ req'[r].pc = "done"
                  /\ req'[r].hit
                  /\ ~req'[r].handler_called
                  /\ Len(req'[r].out) = 2
                  /\ HasCacheStatusHit(req'[r].out[1].headers)]_vars

\* No lookup and no admission of the file cache is under way.
CacheQuiet ==
    /\ \A r \in DOMAIN req : req[r].pc \notin {"lookup_exists", "lookup_read"}
    /\ \A t \in tasks : t.kind # "cache_response"

\* C25: once every lookup and every admission has completed, the memory
\* cache holds at most content_cache_max_size entries.
C25_MemoryBounded == CacheQuiet => Len(content_cache) <= content_cache_max_size

\* The client has the whole response the cache got from the inner handler:
\* its status, its headers with the content-length ContentLengthMiddleware
\* sets, and its body in one final message.
DeliveredFromHandler(rq) ==
    /\ rq.handler_called
    /\ rq.origin.complete
    /\ rq.origin.id = rq.id
    /\ Len(rq.out) = 2
    /\ rq.out[1].type = "http.response.start"
    /\ rq.out[1].status = rq.origin.status
    /\ rq.out[1].headers = Append(drop_header(rq.origin.headers, "content-length"),
                                  ContentLength(Len(rq.origin.body)))
    /\ rq.out[2].type = "http.response.body"
    /\ rq.out[2].body = rq.origin.body
    /\ ~rq.out[2].more_body

\* C26: a request whose cache file could not be read is a MISS, a request
\* whose entry could not be written is not affected, and both are answered
\* with the complete response of the inner handler, status and body as the
\* handler sent them.
C26_IoFailuresSwallowed ==
    \A r \in DOMAIN req :
        /\ req[r].read_failed /\ req[r].pc = "done"
               => ~req[r].hit /\ DeliveredFromHandler(req[r])
        /\ req[r].write_failed
               => req[r].pc = "done" /\ DeliveredFromHandler(req[r])

C26_Witness ==
    \E r \in DOMAIN req :
        /\ req[r].pc = "done"
        /\ req[r].read_failed
        /\ req[r].write_failed
        /\ DeliveredFromHandler(req[r])
        /\ req[r].out[1].status = 200

RECURSIVE Joined(_)
Joined(parts) == IF Len(parts) = 0 THEN <<>> ELSE parts[1] \o Joined(Tail(parts))

\* ceil(n / d).
Ceil(n, d) == (n + d - 1) \div d

\* C28: once the iterator of the response for a UTF-8 text file of N bytes
\* has ended, the chunks it yielded concatenate to the file's bytes and
\* there are ceil(N / ChunkSize) of them.
C28_ChunksAreTheFile ==
    download_pc = "exhausted"
        => /\ Joined(streamed) = download_path.content
           /\ Len(streamed) = Ceil(Len(download_path.content), ChunkSize)

\* C29: download_text_file answers 404, text/plain, "Not Found" for a path
\* that names nothing, a directory, another non-regular file or a symbolic
\* link, and returns a streaming response only for a regular file.
C29_NotFoundUnlessRegular ==
    download_pc \in {"returned", "streaming", "exhausted"}
        => IF download_path.kind = "file"
           THEN download_response.kind = "StreamingResponse"
           ELSE /\ download_response.kind = "Response"
                /\ download_response.status_code = 404
                /\ download_response.media_type = "text/plain"
                /\ download_response.body = NotFound
                /\ streamed = <<>>

C29_Witness ==
    /\ download_pc = "returned"
    /\ download_path.kind = "symlink"
    /\ download_path.target = "file"
    /\ download_response.status_code = 404

\* int(f) of a string of one or two digits.
DigitValue(c) ==
    CASE c = "0" -> 0 [] c = "1" -> 1 [] c = "2" -> 2 [] c = "3" -> 3 [] c = "4" -> 4
      [] c = "5" -> 5 [] c = "6" -> 6 [] c = "7" -> 7 [] c = "8" -> 8 [] c = "9" -> 9

NumberIn(f, low, high) ==
    /\ Len(f) \in {1, 2}
    /\ \A i \in 1..Len(f) : f[i] \in DigitChars
    /\ LET n == IF Len(f) = 1 THEN DigitValue(f[1])
                ELSE 10 * DigitValue(f[1]) + DigitValue(f[2])
       IN  low <= n /\ n <= high

\* Exactly five fields separated by single spaces, each "*" or a number in
\* the range of its field.
FiveFieldsInRange(v) ==
    LET f == split_at(v, " ", <<>>)
    IN  /\ Len(f) = 5
        /\ f[1] = Star \/ NumberIn(f[1], 0, 59)
        /\ f[2] = Star \/ NumberIn(f[2], 0, 23)
        /\ f[3] = Star \/ NumberIn(f[3], 1, 31)
        /\ f[4] = Star \/ NumberIn(f[4], 1, 12)
        /\ f[5] = Star \/ NumberIn(f[5], 0, 6)

\* C30: CronJob accepts a schedule if and only if it is five fields
\* separated by spaces, each "*" or a number in the range of its field
\* (minute 0-59, hour 0-23, day 1-31, month 1-12, weekday 0-6), and rejects
\* every other string.
C30_CronSchedule ==
    /\ cron_pc = "accepted" => FiveFieldsInRange(cron_schedule)
    /\ cron_pc = "rejected" => ~FiveFieldsInRange(cron_schedule)

(***************************************************************************)
(* The cleanup pass, malformed files, the response transformer, the        *)
(* command backend, JWT tokens and the circuit breaker.                    *)
(***************************************************************************)
\* The file holds an entry that an admission wrote less than ttl ago.
WrittenWithinTtl(file) ==
    file.exists /\ file.json /\ now - file.data.timestamp < ttl

\* An admission that started less than ttl ago has the file of `key` open
\* and has yet to write its entry to it.
BeingWritten(key) ==
    \E w \in tasks : /\ w.kind = "cache_response" /\ w.pc = "write" /\ w.key = key
                     /\ ~w.unlinked /\ now - w.data.timestamp < ttl

\* C31: the os.remove of a cleanup pass never takes away a file that an
\* admission wrote less than ttl ago, nor the file such an admission is
\* writing, whatever ran between the pass's stat or read of the file and
\* its remove: the admitted entry is on disk once both have finished.
C31_CleanupSparesFresh ==
    [][\A t \in tasks :
           (/\ t.kind = "run_cleanup" /\ t.pc = "remove"
            /\ t \notin tasks'
            /\ files[t.todo[1]].exists
            /\ ~files'[t.todo[1]].exists)
               => /\ ~WrittenWithinTtl(files[t.todo[1]])
                  /\ ~BeingWritten(t.todo[1])]_vars

\* The step serves request r from the cache.
ServesHit(r) == req'[r].hit /\ (~req[r].hit \/ req'[r].id # req[r].id)

\* C32: a step that serves a HIT leaves the file of the key as it was and
\* the key's memory entry, unless it is evicted, with the timestamp, the
\* status, the headers and the base64 body it held.
C32_HitKeepsEntry ==
    [][\A r \in DOMAIN req :
           ServesHit(r) =>
               LET key == RequestKey(req'[r])
               IN  /\ files'[key] = files[key]
                   /\ (dict_has(content_cache, key) /\ dict_has(content_cache', key))
                          => dict_get(content_cache', key) = dict_get(content_cache, key)]_vars

\* The file exists and json.loads does not accept what it holds.
Unparsable(file) == file.exists /\ ~file.json

\* C33: a lookup that reads an unparsable file is a MISS and leaves a task
\* that deletes the file of its key.
C33_MalformedDeleted ==
    [][\A r \in DOMAIN req :
           (/\ req[r].pc = "lookup_read" /\ req'[r].pc # "lookup_read"
            /\ Unparsable(files[RequestKey(req[r])]))
               => /\ ~ServesHit(r)
                  /\ \E t \in tasks' : /\ t.kind = "delete_file"
                                       /\ t.key = RequestKey(req[r])]_vars

\* The files in the cache directory, as _maybe_cleanup_cache counts them.
CacheCount(fs) == Cardinality({k \in Keys : fs[k].exists})

CleanupPending(ts) == \E u \in ts : u.kind \in {"maybe_cleanup", "run_cleanup"}

\* C34: when the write of an admission leaves more than max_entries * 0.9
\* files and no cleanup holds the lock or is pending, the step leaves a task
\* that leads to a cleanup pass.
C34_CleanupScheduled ==
    [][\A t \in tasks :
           (/\ t.kind = "cache_response" /\ t.pc = "write"
            /\ t \notin tasks'
            /\ files' # files
            /\ CacheCount(files') * 10 > max_entries * 9
            /\ ~cleanup_lock
            /\ ~CleanupPending(tasks))
               => CleanupPending(tasks')]_vars

(***************************************************************************)
(* The response transformer and the chunks of a streamed body.             *)
(***************************************************************************)
\* The body bytes of the messages the client received.
RECURSIVE BodyBytes(_)
BodyBytes(out) ==
    IF Len(out) = 0 THEN <<>>
    ELSE (IF out[1].type = "http.response.body" THEN out[1].body ELSE <<>>)
             \o BodyBytes(Tail(out))

\* What the transformer makes of a body that reaches it in one message.
TransformedWhole(rq) ==
    IF ~decodable(rq.upstream_body) THEN rq.upstream_body
    ELSE transformed(PipeEndpoints[EndpointOf(PipeEndpoints, rq.request.path)],
                     rq.request.path, BodyMessage(rq.upstream_body, FALSE)).body

\* The request was answered with the stream of the upstream, to its end.
Streamed(rq) ==
    /\ rq.pc = "done" /\ rq.request.stream /\ rq.handler_called
    /\ ~rq.raised /\ ~rq.hit
    /\ Len(rq.upstream_body) > 0

\* C35: however the upstream body is cut into chunks, the client receives
\* the bytes the transformer makes of the complete body.
C35_ChunkingIrrelevant ==
    \A r \in DOMAIN req :
        Streamed(req[r]) => BodyBytes(req[r].out) = TransformedWhole(req[r])

(***************************************************************************)
(* The command backend.                                                    *)
(***************************************************************************)
\* C36: a subprocess that has run for longer than the command timeout has
\* been ended and its request answered with 408.
C36_CommandTimeout ==
    elapsed > timeout => /\ process = "exited"
                         /\ command_status = 408

BreakerHandles(path) ==
    /\ breaker_calls' = breaker_calls + 1
    /\ breaker_path' = path

\* C38: with circuit breaking enabled, a request to a path whose failures
\* since the last reset have reached the threshold is answered 503 and does
\* not reach the app; a request that finds the reset due, more than
\* reset_interval after the previous one, reaches the app.
C38_CircuitBreaker ==
    [][\A path \in BreakerPaths \ (BreakerSkipPaths \cup BreakerExcludePaths) :
           (breaker_enabled /\ BreakerHandles(path)) =>
               /\ (~ResetDue /\ failure_counts[path] >= failure_threshold)
                      => (breaker_answer' = "503" /\ app_calls' = app_calls)
               /\ ResetDue => app_calls' = app_calls + 1]_vars

(***************************************************************************)
(* cleanup_all and the manager's lock.                                     *)
(***************************************************************************)
\* C39: a cleanup_all that has begun returns, whatever get_connector calls
\* are made meanwhile, and when it has returned the dict is empty and every
\* connector it held is closed.
C39_CleanupAllTerminates ==
    (cleanup_pc # "idle")
        ~> (/\ cleanup_pc = "returned"
            /\ held_connectors \subseteq closed)

====
